---- MODULE Spec2Model ----
(***************************************************************************)
(* Model of util/ratelimited_github.py: RateLimitedGitHubSession, the      *)
(* rate-limit gate in front of every GitHub API request.                   *)
(*                                                                         *)
(* request() is re-entrant: the wait in front of a request may refill the  *)
(* cache, which issues a request to the rate_limit endpoint through the    *)
(* same request() method.  The model therefore keeps a stack of            *)
(* activation records, one per running request().                          *)
(*                                                                         *)
(* Time is counted in ticks (TicksPerSecond per second) so that            *)
(* datetime.utcnow() can lie between two whole seconds, which is what      *)
(* makes the int() truncation of the wait time observable.                 *)
(***************************************************************************)
EXTENDS Integers, Sequences, FiniteSets, TLC

\* ---------------------------------------------------------------- bounds
TicksPerSecond == 2     \* clock resolution of the model
MaxReset == 1           \* latest reset time (seconds) the server reports
MaxRemaining == 1       \* largest remaining quota the server reports
MaxRetryAfter == 1      \* largest Retry-After (seconds) the server sends
MaxAbuse == 2           \* 403 responses with Retry-After per session
MaxDepth == 2           \* nesting of request() activations

\* ------------------------------------------------------ program constants
DEFAULT_SLEEP_PERIOD == 1
WAIT_MARGIN == 2

RATELIMIT_LIMIT_HEADER == "X-RateLimit-Limit"
RATELIMIT_REMAINING_HEADER == "X-RateLimit-Remaining"
RATELIMIT_RESET_HEADER == "X-RateLimit-Reset"
RETRY_AFTER_HEADER == "Retry-After"
CORE_RESOURCE == "core"
SEARCH_RESOURCE == "search"

Resources == {CORE_RESOURCE, SEARCH_RESOURCE}

\* The clock stops at MaxNow: every sleep _wait_for_ratelimit can compute from
\* a reset <= MaxReset ends before it.
MaxNow == (MaxReset + WAIT_MARGIN + 1) * TicksPerSecond

\* ------------------------------------------------------- Python values
\* A header value is a string of decimal digits, a JSON number is an int.
\* Both kinds end up in the cache and both go through int() when read.
RECURSIVE DecStr(_)
DecStr(n) == IF n < 10 THEN <<n>> ELSE Append(DecStr(n \div 10), n % 10)

RECURSIVE ParseInt(_)
ParseInt(s) ==
    IF Len(s) = 0 THEN 0
    ELSE 10 * ParseInt(SubSeq(s, 1, Len(s) - 1)) + s[Len(s)]

StrVal(n) == [str |-> DecStr(n)]
IntVal(n) == [int |-> n]

\* int(v)
PyInt(v) == IF DOMAIN v = {"str"} THEN ParseInt(v.str) ELSE v.int

\* dict.get(key, default)
DictGet(d, key, default) == IF key \in DOMAIN d THEN d[key] ELSE default

EmptyDict == [k \in {} |-> 0]

\* int(x) of a rational a / b: truncation toward zero
TruncDiv(a, b) == IF a >= 0 THEN a \div b ELSE -((-a) \div b)

\* ------------------------------------------------------------- URLs
\* A URL is modelled by urlparse(url).path.split('/').
RateLimitPath == <<"", "rate_limit">>
SearchPath == <<"", "search", "code">>
RepoPath == <<"", "repos", "o", "r">>
RootPath == <<"">>
Paths == {RateLimitPath, SearchPath, RepoPath, RootPath}

ResourceFromUrl(path_frags) ==
    IF Len(path_frags) > 1 /\ path_frags[2] = SEARCH_RESOURCE
    THEN SEARCH_RESOURCE
    ELSE CORE_RESOURCE

\* --------------------------------------------------------------- state
VARIABLES
    cache,       \* self._ratelimit_cache: resource -> {limit, remaining, reset}
    suggested,   \* self.suggested_time_between_requests
    now,         \* datetime.utcnow(), in ticks
    stack,       \* activation records of request(), innermost last
    ret,         \* outcome of the client's last call: headers of the response, or the error
    last,        \* history: what the last step was (a wait, a 403, a connection error)
    nAbuse       \* history: 403 responses with Retry-After handled so far

\* The other components of the repository.  Each has its own variables and
\* its own specification; while one component runs, the others stay idle.
VARIABLES
    full_name,   \* RepoVerifier.full_name_to_parts: the argument
    parts,       \*   and the outcome of the call
    call,        \* RepoVerifier / deduplicate: the running operation and its locals
    trace,       \*   history: try_fn calls and API requests of that operation
    result,      \*   and its outcome
    haystack,    \* RecursiveSearch.search: the value searched
    todo,        \*   calls of search() still to be made, next one first
    results,     \*   self.results
    stats_str,   \* GitHistory._parse_stats: the argument
    stats,       \*   and the outcome of the call
    output,      \* GitHistory.iter_commits: self.output, the text of the log
    visited,     \*   blocks of the split the loop has gone through
    yielded,     \*   what the generator has yielded so far
    stopped,     \*   how the generator has ended, if it has
    fs,          \* add_gradle_info: the directory tree below outdir
    repo_list,   \*   rows of the input table not yet read
    output_list  \*   rows written to the output table

\* The components of the subcommands.  Each has its own variables and its own
\* specification, and stays idle while another component runs.
VARIABLES
    csv_reader,        \* clone.clone_repositories: fieldnames and rows of the input table
    min_commits,       \*   the threshold
    line_num,          \*   rows the loop has read
    cloned,            \*   history: the names clone_repo was called with
    exit_status,       \*   how the run stands: running, done, exit 1 or an exception
    default_branch,    \* Repo.count_commits: commits on the default branch and the page size of the API
    stop_at,           \*   the argument (n_commits of has_n_commits)
    counted,           \*   the outcome of the call and the API requests it made
    package_iterator,  \* get_play_data.download_package_details: package names not yet grouped
    batches,           \*   history: the groups handed to bulk_fetch_details and how the binary ended
    files,             \*   the <package>.json files written to out_dir
    slept,             \*   seconds spent in time.sleep(DELAY)
    play_status,       \*   how the run stands: running, done or an exception
    input_row,         \* prepare_neo4j_import: the row of a commit
    formatted,         \*   what the format_* function called for the row returned
    known_packages,    \* match_packages.match_play_and_github: package name -> repositories with a manifest for it
    package_details,   \*   the packages of the details directory with the GitHub links found in their details
    match_stats,       \*   stats, the counters
    matched,           \*   history: the (package, repository) pairs yielded
    match_status,      \*   how the generator stands: running, done or an exception
    by_gitlab_name,    \* mirror_empty_repos._main: repos, the GitHub names known for each GitLab name
    empty_repos,       \*   the input list of GitLab names
    to_import,         \*   repo_names: the pairs (GitHub name, GitLab name) kept by the first loop
    projects,          \*   the projects of namespace gitlab on the GitLab server
    api_calls,         \*   history: the API calls issued to the GitLab server
    csv_rows,          \*   the rows written to the output after the header
    mirror_pc          \*   where _main stands: phase and list index

cloneVars == <<csv_reader, min_commits, line_num, cloned, exit_status>>
countVars == <<default_branch, stop_at, counted>>
playVars == <<package_iterator, batches, files, slept, play_status>>
importVars == <<input_row, formatted>>
matchVars == <<known_packages, package_details, match_stats, matched, match_status>>
mirrorVars == <<by_gitlab_name, empty_repos, to_import, projects, api_calls, csv_rows, mirror_pc>>

laterVars == <<cloneVars, countVars, playVars, importVars, matchVars, mirrorVars>>

gateVars == <<cache, suggested, now, stack, ret, last, nAbuse>>
nameVars == <<full_name, parts>>
repoVars == <<call, trace, result>>
searchVars == <<haystack, todo, results>>
statsVars == <<stats_str, stats>>
historyVars == <<output, visited, yielded, stopped>>
gradleVars == <<fs, repo_list, output_list>>

vars == <<gateVars, nameVars, repoVars, searchVars, statsVars, historyVars, gradleVars,
          laterVars>>

NoRet == [kind |-> "none"]
Nothing == [ev |-> "none"]

GateIdle ==
    /\ cache = EmptyDict /\ suggested = DEFAULT_SLEEP_PERIOD /\ now = 0
    /\ stack = <<>> /\ ret = NoRet /\ last = Nothing /\ nAbuse = 0
NamesIdle == full_name = <<>> /\ parts = NoRet
ReposIdle == call = [op |-> "idle", pc |-> "done"] /\ trace = <<>> /\ result = NoRet
SearchIdle == haystack = <<>> /\ todo = <<>> /\ results = <<>>
StatsIdle == stats_str = <<>> /\ stats = NoRet
HistoryIdle == output = <<>> /\ visited = 0 /\ yielded = <<>> /\ stopped = "no"
GradleIdle == fs = {} /\ repo_list = <<>> /\ output_list = <<>>

outsideGate == <<nameVars, repoVars, searchVars, statsVars, historyVars, gradleVars,
    laterVars>>
outsideNames == <<gateVars, repoVars, searchVars, statsVars, historyVars, gradleVars,
    laterVars>>
outsideRepos == <<gateVars, nameVars, searchVars, statsVars, historyVars, gradleVars,
    laterVars>>
outsideSearch == <<gateVars, nameVars, repoVars, statsVars, historyVars, gradleVars,
    laterVars>>
outsideStats == <<gateVars, nameVars, repoVars, searchVars, historyVars, gradleVars,
    laterVars>>
outsideHistory == <<gateVars, nameVars, repoVars, searchVars, statsVars, gradleVars,
    laterVars>>
outsideGradle == <<gateVars, nameVars, repoVars, searchVars, statsVars, historyVars,
    laterVars>>

\* What each component of the subcommands leaves alone.
CloneIdle ==
    /\ csv_reader = <<>> /\ min_commits = 0 /\ line_num = 0
    /\ cloned = <<>> /\ exit_status = "idle"
CountIdle ==
    default_branch = <<>> /\ stop_at = 0 /\ counted = NoRet
PlayIdle ==
    /\ package_iterator = <<>> /\ batches = <<>> /\ files = {} /\ slept = 0
    /\ play_status = "idle"
ImportIdle ==
    input_row = <<>> /\ formatted = NoRet
MatchIdle ==
    /\ known_packages = <<>> /\ package_details = <<>> /\ match_stats = <<>> /\ matched = <<>>
    /\ match_status = "idle"
MirrorIdle ==
    /\ by_gitlab_name = <<>> /\ empty_repos = <<>> /\ to_import = <<>>
    /\ projects = {} /\ api_calls = <<>> /\ csv_rows = <<>>
    /\ mirror_pc = [phase |-> "idle", i |-> 0]
LaterIdle == CloneIdle /\ CountIdle /\ PlayIdle /\ ImportIdle /\ MatchIdle /\ MirrorIdle
earlierVars == <<gateVars, nameVars, repoVars, searchVars, statsVars, historyVars, gradleVars>>
EarlierIdle ==
    /\ GateIdle /\ NamesIdle /\ ReposIdle /\ SearchIdle
    /\ StatsIdle /\ HistoryIdle /\ GradleIdle

outsideClone == <<earlierVars, countVars, playVars, importVars, matchVars, mirrorVars>>
OnlyClone == EarlierIdle /\ CountIdle /\ PlayIdle /\ ImportIdle /\ MatchIdle /\ MirrorIdle
outsideCount == <<earlierVars, cloneVars, playVars, importVars, matchVars, mirrorVars>>
OnlyCount == EarlierIdle /\ CloneIdle /\ PlayIdle /\ ImportIdle /\ MatchIdle /\ MirrorIdle
outsidePlay == <<earlierVars, cloneVars, countVars, importVars, matchVars, mirrorVars>>
OnlyPlay == EarlierIdle /\ CloneIdle /\ CountIdle /\ ImportIdle /\ MatchIdle /\ MirrorIdle
outsideImport == <<earlierVars, cloneVars, countVars, playVars, matchVars, mirrorVars>>
OnlyImport == EarlierIdle /\ CloneIdle /\ CountIdle /\ PlayIdle /\ MatchIdle /\ MirrorIdle
outsideMatch == <<earlierVars, cloneVars, countVars, playVars, importVars, mirrorVars>>
OnlyMatch == EarlierIdle /\ CloneIdle /\ CountIdle /\ PlayIdle /\ ImportIdle /\ MirrorIdle
outsideMirror == <<earlierVars, cloneVars, countVars, playVars, importVars, matchVars>>
OnlyMirror == EarlierIdle /\ CloneIdle /\ CountIdle /\ PlayIdle /\ ImportIdle /\ MatchIdle

\* One activation of request(method, url).  `status` says whether the URL is
\* that of the rate_limit endpoint, `built` whether it is the very string
\* object self.build_url('rate_limit') hands out.  The fields after fillFrom
\* are history: they record what this activation has done.
NewFrame(path, built) ==
    [ status    |-> path = RateLimitPath,
      built     |-> built,
      resource  |-> ResourceFromUrl(path),
      pc        |-> "start",
      fillFrom  |-> "none",
      waited    |-> FALSE,    \* _wait_for_ratelimit was entered at line 160
      after403  |-> FALSE,    \* the next send is the resend after a plain 403
      didFill   |-> FALSE,    \* _fill_ratelimit_cache has returned since that 403
      didWait   |-> FALSE ]   \* and _wait_for_ratelimit has returned after it

Top == stack[Len(stack)]
SetTop(f) == [stack EXCEPT ![Len(stack)] = f]
Pop == SubSeq(stack, 1, Len(stack) - 1)

\* ------------------------------------------------------------ the code
HasRatelimitHeaders(headers) ==
    /\ RATELIMIT_LIMIT_HEADER \in DOMAIN headers
    /\ RATELIMIT_REMAINING_HEADER \in DOMAIN headers
    /\ RATELIMIT_RESET_HEADER \in DOMAIN headers

HeaderRecord(headers) ==
    [ limit     |-> headers[RATELIMIT_LIMIT_HEADER],
      remaining |-> headers[RATELIMIT_REMAINING_HEADER],
      reset     |-> headers[RATELIMIT_RESET_HEADER] ]

\* the cache rebuilt around the one record instead of updated
CacheRatelimitHeaders_Rebuilt(c, headers, resource) ==
    IF HasRatelimitHeaders(headers)
    THEN [r \in {resource} |-> HeaderRecord(headers)]
    ELSE IF DOMAIN c = {} THEN EmptyDict ELSE c

\* the resource argument left at its default, CORE_RESOURCE
CacheRatelimitHeaders_Default(c, headers, resource) ==
    LET c0 == IF DOMAIN c = {} THEN EmptyDict ELSE c
    IN  IF HasRatelimitHeaders(headers)
        THEN [r \in DOMAIN c0 \cup {CORE_RESOURCE} |->
                 IF r = CORE_RESOURCE THEN HeaderRecord(headers) ELSE c0[r]]
        ELSE c0

CacheRatelimitHeaders(c, headers, resource) ==
    LET c0 == IF DOMAIN c = {} THEN EmptyDict ELSE c
    IN  IF HasRatelimitHeaders(headers)
        THEN [r \in DOMAIN c0 \cup {resource} |->
                 IF r = resource THEN HeaderRecord(headers) ELSE c0[r]]
        ELSE c0

\* _fill_ratelimit_cache, given the response of self.get(rate_limit)
FillCache(c, response) ==
    IF response.status_code = 200 /\ response.content
    THEN IF "resources" \in DOMAIN response.json
         THEN response.json["resources"]
         ELSE c
    ELSE c

\* `not (self._ratelimit_cache and resource in self._ratelimit_cache)`
NeedsFill(c, resource) == ~(DOMAIN c # {} /\ resource \in DOMAIN c)

Remaining(ratelimit) == PyInt(DictGet(ratelimit, "remaining", StrVal(0)))
Reset(ratelimit) == PyInt(DictGet(ratelimit, "reset", StrVal(0)))

\* reset - utcnow(), in ticks
ResetDelta(ratelimit, t) == Reset(ratelimit) * TicksPerSecond - t

\* the wait without the two seconds added in line 127
WaitTime_NoMargin(ratelimit, t) ==
    TruncDiv(ResetDelta(ratelimit, t), TicksPerSecond)

\* the subtraction of line 126 the other way round
WaitTime_Reversed(ratelimit, t) ==
    TruncDiv(0 - ResetDelta(ratelimit, t), TicksPerSecond) + WAIT_MARGIN

WaitTime(ratelimit, t) ==
    TruncDiv(ResetDelta(ratelimit, t), TicksPerSecond) + WAIT_MARGIN

\* the test of line 124 inverted: sleeps only while quota is left
GateSleep_Inverted(ratelimit, t) ==
    IF Remaining(ratelimit) >= 1
    THEN IF WaitTime(ratelimit, t) > 0 THEN WaitTime(ratelimit, t) ELSE 0
    ELSE 0

\* seconds handed to time.sleep by _wait_for_ratelimit (0: no sleep)
GateSleep(ratelimit, t) ==
    IF Remaining(ratelimit) < 1
    THEN IF WaitTime(ratelimit, t) > 0 THEN WaitTime(ratelimit, t) ELSE 0
    ELSE 0

\* `url is not self.build_url('rate_limit')`: an identity test on the string
UrlIsNotRateLimit(f) == ~f.built

Doubled(s) == s * 2

\* the sleep of line 173 without DEFAULT_SLEEP_PERIOD
AbuseSleep_Bare(retry_after) == retry_after

AbuseSleep(retry_after) == retry_after + DEFAULT_SLEEP_PERIOD
ConnectionSleep == DEFAULT_SLEEP_PERIOD

\* `except ConnectionError`: the builtin class; nothing is imported under
\* that name, so requests.exceptions.ConnectionError (an IOError) is no match.
Caught(exc) == exc = "ConnectionError"

\* frame after a 403 without Retry-After: call _fill_ratelimit_cache (178)
OnForbidden(f) ==
    [f EXCEPT !.pc = "fill", !.fillFrom = "request"]

\* line 179 left out: straight back to the send after the refill
AfterFill_NoWait(f, c) ==
    IF f.fillFrom = "request"
    THEN [f EXCEPT !.pc = "send", !.fillFrom = "none"]
    ELSE [f EXCEPT !.pc = IF f.resource \in DOMAIN c THEN "decide" ELSE "KeyError",
                   !.fillFrom = "none"]

\* where _fill_ratelimit_cache returns to: request() line 179, or
\* _get_ratelimit line 111, which looks the resource up in the cache
AfterFill(f, c) ==
    IF f.fillFrom = "request"
    THEN [f EXCEPT !.pc = "get", !.fillFrom = "none"]
    ELSE [f EXCEPT !.pc = IF f.resource \in DOMAIN c THEN "decide" ELSE "KeyError",
                   !.fillFrom = "none"]

\* ------------------------------------------------------ the environment
\* What the server may answer.  It reports reset times that are not yet past
\* (reset >= now) and at most MaxReset, and a limit above every remaining.
NowSec == (now + TicksPerSecond - 1) \div TicksPerSecond
ServerLimit == MaxRemaining + 4

ServerQuota ==
    { <<rem, rst>> : rem \in 0..MaxRemaining, rst \in NowSec..MaxReset }

FullHeaders(q) ==
    (RATELIMIT_LIMIT_HEADER :> StrVal(ServerLimit)) @@
    (RATELIMIT_REMAINING_HEADER :> StrVal(q[1])) @@
    (RATELIMIT_RESET_HEADER :> StrVal(q[2]))

\* a response that lacks X-RateLimit-Reset
PartialHeaders ==
    (RATELIMIT_LIMIT_HEADER :> StrVal(ServerLimit)) @@
    (RATELIMIT_REMAINING_HEADER :> StrVal(0))

RateHeaders ==
    {EmptyDict, PartialHeaders} \cup { FullHeaders(q) : q \in ServerQuota }

JsonRecord(q) ==
    [limit |-> IntVal(ServerLimit), remaining |-> IntVal(q[1]), reset |-> IntVal(q[2])]

\* bodies of the rate_limit endpoint: no content, JSON without "resources",
\* or "resources" for none, one or all of the resources
NoBody == [content |-> FALSE, json |-> EmptyDict]
StatusBodies ==
    {NoBody, [content |-> TRUE, json |-> EmptyDict]} \cup
    { [content |-> TRUE, json |-> ("resources" :> [r \in S |-> JsonRecord(q)])] :
        S \in {{}, {CORE_RESOURCE}, Resources}, q \in ServerQuota }

Response(status, headers, body) ==
    [status_code |-> status, headers |-> headers,
     content |-> body.content, json |-> body.json]

\* -------------------------------------------------------------- actions
Init ==
    /\ cache = EmptyDict
    /\ suggested = DEFAULT_SLEEP_PERIOD
    /\ now = 0
    /\ stack = <<>>
    /\ ret = NoRet
    /\ last = Nothing
    /\ nAbuse = 0
    /\ NamesIdle /\ ReposIdle /\ SearchIdle /\ StatsIdle /\ HistoryIdle /\ GradleIdle
    /\ LaterIdle

\* A client calls request(method, url).  Only a URL for the rate_limit path
\* can be the object build_url('rate_limit') returns.
Call ==
    /\ stack = <<>>
    /\ \E path \in Paths, built \in BOOLEAN :
          /\ built => path = RateLimitPath
          /\ stack' = <<NewFrame(path, built)>>
    /\ ret' = NoRet
    /\ last' = Nothing
    /\ UNCHANGED <<cache, suggested, now, nAbuse>>
    /\ UNCHANGED outsideGate

\* Time passes between two calls.
Tick ==
    /\ stack = <<>>
    /\ now < MaxNow
    /\ now' = now + 1
    /\ ret' = NoRet
    /\ last' = Nothing
    /\ UNCHANGED <<cache, suggested, stack, nAbuse>>
    /\ UNCHANGED outsideGate

\* request(), lines 157-160
Request_Enter ==
    /\ stack # <<>>
    /\ Top.pc = "start"
    /\ stack' = SetTop(IF UrlIsNotRateLimit(Top)
                       THEN [Top EXCEPT !.pc = "get", !.waited = TRUE]
                       ELSE [Top EXCEPT !.pc = "send"])
    /\ last' = Nothing
    /\ UNCHANGED <<cache, suggested, now, ret, nAbuse>>
    /\ UNCHANGED outsideGate

\* _get_ratelimit, lines 109-110: return the cached record or call
\* _fill_ratelimit_cache, which sends a request to the rate_limit endpoint
\* (line 53).  The URL it passes is what build_url('rate_limit') returned, and
\* github3's build_url hands out one memoised string per argument list, so the
\* identity test of line 159 finds the same object: built = TRUE.
GetRatelimit ==
    /\ stack # <<>>
    /\ Top.pc = "get"
    /\ IF NeedsFill(cache, Top.resource)
       THEN stack' = Append(SetTop([Top EXCEPT !.pc = "fill", !.fillFrom = "get"]),
                            NewFrame(RateLimitPath, TRUE))
       ELSE stack' = SetTop([Top EXCEPT !.pc = "decide"])
    /\ last' = Nothing
    /\ UNCHANGED <<cache, suggested, now, ret, nAbuse>>
    /\ UNCHANGED outsideGate

\* _wait_for_ratelimit, lines 123-132, with the record _get_ratelimit returned
WaitForRatelimit ==
    /\ stack # <<>>
    /\ Top.pc = "decide"
    /\ LET wait_time == GateSleep(cache[Top.resource], now)
       IN  now' = now + wait_time * TicksPerSecond
    /\ last' = [ev |-> "wait", t0 |-> now]
    /\ stack' = SetTop([Top EXCEPT !.pc = "send", !.didWait = Top.didFill])
    /\ UNCHANGED <<cache, suggested, ret, nAbuse>>
    /\ UNCHANGED outsideGate

\* a 403 is retried: were its rate-limit headers left out of the cache?
Missed(f, headers) ==
    /\ HasRatelimitHeaders(headers)
    /\ \/ f.resource \notin DOMAIN cache
       \/ cache[f.resource] # HeaderRecord(headers)

\* lines 163-173: the send is answered 403 with Retry-After.  The header is
\* a count of seconds and the body is JSON, as GitHub sends them, so that
\* int() in line 167 and response.json() in line 170 succeed.
Request_Abuse ==
    /\ stack # <<>>
    /\ Top.pc = "send"
    /\ nAbuse < MaxAbuse
    /\ \E r \in 0..MaxRetryAfter, m \in { Missed(Top, h) : h \in RateHeaders } :
          /\ now + AbuseSleep(r) * TicksPerSecond <= MaxNow
          /\ now' = now + AbuseSleep(r) * TicksPerSecond
          /\ last' = [ev |-> "abuse", t0 |-> now, retry_after |-> r, missed |-> m]
          /\ stack' = SetTop([Top EXCEPT !.after403 = FALSE])
    /\ suggested' = Doubled(suggested)
    /\ nAbuse' = nAbuse + 1
    /\ UNCHANGED <<cache, ret>>
    /\ UNCHANGED outsideGate

\* lines 163-164, 174-178: the send is answered 403 without Retry-After
Request_Forbidden ==
    /\ stack # <<>>
    /\ Top.pc = "send"
    /\ Len(stack) < MaxDepth
    /\ \E m \in { Missed(Top, h) : h \in RateHeaders } :
          last' = [ev |-> "forbidden", missed |-> m]
    /\ stack' = Append(
          SetTop([OnForbidden(Top) EXCEPT
                     !.after403 = TRUE, !.didFill = FALSE, !.didWait = FALSE]),
          NewFrame(RateLimitPath, TRUE))
    /\ UNCHANGED <<cache, suggested, now, ret, nAbuse>>
    /\ UNCHANGED outsideGate

\* lines 163-164, 182-188: the send raises
Request_Exception ==
    /\ stack # <<>>
    /\ Top.pc = "send"
    /\ \E exc \in {"ConnectionError", "requests.ConnectionError"} :
          IF Caught(exc)
          THEN /\ now + ConnectionSleep * TicksPerSecond <= MaxNow
               /\ now' = now + ConnectionSleep * TicksPerSecond
               /\ last' = [ev |-> "connection", t0 |-> now]
               /\ stack' = SetTop([Top EXCEPT !.after403 = FALSE])
               /\ ret' = ret
          ELSE /\ now' = now
               /\ last' = Nothing
               /\ stack' = <<>>
               /\ ret' = [kind |-> "raised", exc |-> exc]
    /\ UNCHANGED <<cache, suggested, nAbuse>>
    /\ UNCHANGED outsideGate

\* lines 163-164, 180-181, 189-190: any other answer ends the loop; the
\* client's call returns
Request_Return ==
    /\ Len(stack) = 1
    /\ Top.pc = "send"
    /\ \E status \in {200, 404}, h \in RateHeaders :
          /\ cache' = CacheRatelimitHeaders(cache, h, Top.resource)
          /\ ret' = [kind |-> "returned", headers |-> h, resource |-> Top.resource]
    /\ stack' = Pop
    /\ last' = Nothing
    /\ UNCHANGED <<suggested, now, nAbuse>>
    /\ UNCHANGED outsideGate

\* The same for the request that _fill_ratelimit_cache sent (line 53): the
\* inner request() returns (189-190), _fill_ratelimit_cache goes on with the
\* response (54-59) and returns to _get_ratelimit line 111 or request() line 179
FillRatelimitCache ==
    /\ Len(stack) > 1
    /\ Top.pc = "send"
    /\ \E c \in { FillCache(CacheRatelimitHeaders(cache, h, Top.resource),
                               Response(status, h, body)) :
                       status \in {200, 404}, h \in RateHeaders, body \in StatusBodies } :
          LET caller == stack[Len(stack) - 1]
              f == [AfterFill(caller, c) EXCEPT
                       !.didFill = (caller.fillFrom = "request") \/ @]
          IN  /\ cache' = c
              /\ IF f.pc = "KeyError"
                 THEN stack' = <<>> /\ ret' = [kind |-> "raised", exc |-> "KeyError"]
                 ELSE stack' = [Pop EXCEPT ![Len(stack) - 1] = f] /\ ret' = NoRet
    /\ last' = Nothing
    /\ UNCHANGED <<suggested, now, nAbuse>>
    /\ UNCHANGED outsideGate

Next ==
    \/ Call
    \/ Tick
    \/ Request_Enter
    \/ GetRatelimit
    \/ WaitForRatelimit
    \/ Request_Abuse
    \/ Request_Forbidden
    \/ Request_Exception
    \/ Request_Return
    \/ FillRatelimitCache

Spec == Init /\ [][Next]_vars

TypeOK ==
    /\ Len(stack) <= MaxDepth
    /\ now \in 0..MaxNow
    /\ DOMAIN cache \subseteq Resources

\* ============================================================== claims
\* The record _wait_for_ratelimit has just decided on, the time from its
\* reset back to the moment of the decision, and the time slept since.
GateRecord == cache[Top.resource]
GateDelta == PyInt(GateRecord.reset) * TicksPerSecond - last.t0
GateSlept == now - last.t0
JustWaited == stack # <<>> /\ last.ev = "wait"

\* C1 (as stated): no request to the rate_limit endpoint ever enters
\* _wait_for_ratelimit; it is sent without consulting or refilling the cache.
\* The code tests the identity of the URL string, not its value, so this
\* fails for a rate_limit URL that is not the object build_url returns.
C1_StatusRequestNeverWaits ==
    \A i \in DOMAIN stack : stack[i].status => ~stack[i].waited

\* C2: when _wait_for_ratelimit decides on a record with remaining = 0 whose
\* reset lies d >= 0 ahead, request() sleeps at least d (d plus the 2-second
\* margin, less than one second lost to truncation) and only then sends; on a
\* record with remaining >= 1 it goes on to send without sleeping.
C2_GateSleepsUntilReset ==
    JustWaited =>
        /\ Top.pc = "send"
        /\ (PyInt(GateRecord.remaining) = 0 /\ GateDelta >= 0) =>
              /\ GateSlept >= GateDelta
              /\ GateSlept > GateDelta + (WAIT_MARGIN - 1) * TicksPerSecond
              /\ GateSlept <= GateDelta + WAIT_MARGIN * TicksPerSecond
        /\ PyInt(GateRecord.remaining) >= 1 => GateSlept = 0

C2_Witness ==
    /\ JustWaited
    /\ Top.waited /\ ~Top.after403
    /\ PyInt(GateRecord.remaining) = 0
    /\ GateDelta > 0
    /\ GateSlept >= GateDelta

WaitReturned ==
    stack # <<>> /\ Top.pc = "send" /\ (Top.waited \/ Top.didWait)

\* C4 (as stated): when _wait_for_ratelimit has returned, the cached
\* remaining of the resource is at least 1.
C4_RemainingAfterWait ==
    WaitReturned => PyInt(cache[Top.resource].remaining) >= 1

\* C4 (amended): when _wait_for_ratelimit has returned, the cached remaining
\* is at least 1 or the cached reset is at least one second past; the record
\* itself is left as it was.
C4_QuotaOrResetPassed ==
    WaitReturned =>
        \/ PyInt(cache[Top.resource].remaining) >= 1
        \/ now >= (PyInt(cache[Top.resource].reset) + 1) * TicksPerSecond

C4_Witness ==
    /\ JustWaited
    /\ WaitReturned
    /\ PyInt(GateRecord.remaining) = 0
    /\ GateSlept > 0

\* the three rate-limit headers are all there
AllThree(h) ==
    {RATELIMIT_LIMIT_HEADER, RATELIMIT_REMAINING_HEADER, RATELIMIT_RESET_HEADER}
        \subseteq DOMAIN h

\* the client's request() has just returned a response
Returned == stack = <<>> /\ ret.kind = "returned"

\* C5: the step of request() that calls _cache_ratelimit_headers(headers,
\* resource): with all three headers the entry of `resource` becomes the three
\* header values and every other entry stays; with a header missing the whole
\* cache stays as it is.
C5_CacheHeadersFrame ==
    [][ (Len(stack) = 1 /\ stack' = <<>> /\ ret'.kind = "returned") =>
          LET h == ret'.headers
              r == ret'.resource
          IN  IF AllThree(h)
              THEN /\ DOMAIN cache' = DOMAIN cache \cup {r}
                   /\ cache'[r].limit = h[RATELIMIT_LIMIT_HEADER]
                   /\ cache'[r].remaining = h[RATELIMIT_REMAINING_HEADER]
                   /\ cache'[r].reset = h[RATELIMIT_RESET_HEADER]
                   /\ \A q \in DOMAIN cache \ {r} : cache'[q] = cache[q]
              ELSE cache' = cache ]_vars

C5_Witness ==
    /\ Returned
    /\ AllThree(ret.headers)
    /\ ret.resource = SEARCH_RESOURCE
    /\ DOMAIN cache = Resources
    /\ cache[SEARCH_RESOURCE].remaining = ret.headers[RATELIMIT_REMAINING_HEADER]
    /\ cache[CORE_RESOURCE].remaining # cache[SEARCH_RESOURCE].remaining

C9_ConnectionFailureInvisible ==
    ~(ret.kind = "raised" /\ ret.exc = "requests.ConnectionError")

\* C10 (as stated): whatever the server answers, request() raises no error.
\* With the resource missing from the cache after the refill, line 111
\* raises KeyError.
C10_ServerNeverMakesRequestRaise ==
    ret.kind = "raised" => ret.exc = "requests.ConnectionError"

\* ======================================================================
\* RepoVerifier.full_name_to_parts (util/github_repo.py)
\* ======================================================================
MaxNameLen == 4         \* longest identifier tried

\* A string is a sequence of characters.  The alphabet holds a lower-case
\* letter, an upper-case letter, a digit, the punctuation the pattern names,
\* the slash, a newline and a blank.
NameAlphabet == {"a", "B", "0", "-", "_", ".", "/", "\n", " "}

StringsOver(alphabet, n) == UNION { [1..k -> alphabet] : k \in 0..n }

None == [kind |-> "None"]

\* [a-z0-9-] under re.I
IsOwnerChar(c) == c \in {"a", "B", "0", "-"}

\* [a-z0-9_\.-] under re.I
IsNameChar(c) == c \in {"a", "B", "0", "-", "_", "."}

\* where `$` matches without re.M: at the end of the string, and before a
\* newline that is the last character
DollarPositions(s) ==
    {Len(s)} \cup (IF Len(s) > 0 /\ s[Len(s)] = "\n" THEN {Len(s) - 1} ELSE {})

\* FULL_NAME_PATTERN.match(s): the match's groups, or None.  i is the place of
\* the slash and e the last character of the second group.
FULL_NAME_PATTERN_match(s) ==
    LET hits == { h \in (1..Len(s)) \X DollarPositions(s) :
                    /\ 1 < h[1] /\ h[1] < h[2]
                    /\ s[h[1]] = "/"
                    /\ \A j \in 1..(h[1] - 1) : IsOwnerChar(s[j])
                    /\ \A j \in (h[1] + 1)..h[2] : IsNameChar(s[j]) }
    IN  IF hits = {} THEN None
        ELSE LET h == CHOOSE x \in hits : TRUE
             IN  [kind |-> "match",
                  groups |-> <<SubSeq(s, 1, h[1] - 1), SubSeq(s, h[1] + 1, h[2])>>]

full_name_to_parts(s) ==
    LET match == FULL_NAME_PATTERN_match(s)
    IN  IF match # None
        THEN [kind |-> "returned", value |-> match.groups]
        ELSE [kind |-> "raised", exc |-> "ValueError"]

NamesInit ==
    /\ full_name \in StringsOver(NameAlphabet, MaxNameLen)
    /\ parts = NoRet
    /\ GateIdle /\ ReposIdle /\ SearchIdle /\ StatsIdle /\ HistoryIdle /\ GradleIdle
    /\ LaterIdle

FullNameToParts ==
    /\ parts = NoRet
    /\ parts' = full_name_to_parts(full_name)
    /\ UNCHANGED full_name
    /\ UNCHANGED outsideNames

NamesNext == FullNameToParts

SpecNames == NamesInit /\ [][NamesNext]_vars

\* C11 (as stated): a string that matches the pattern is returned as the pair
\* (owner, name) with owner + "/" + name equal to the string, and a string
\* that does not match raises ValueError.  The `$` of the pattern also
\* matches before a final newline, so "a/a\n" is accepted and parsed to
\* ("a", "a"), which does not join back to the input.
C11_PartsJoinToInput ==
    parts # NoRet =>
        IF FULL_NAME_PATTERN_match(full_name) # None
        THEN /\ parts.kind = "returned"
             /\ parts.value[1] \o <<"/">> \o parts.value[2] = full_name
        ELSE parts = [kind |-> "raised", exc |-> "ValueError"]

\* ======================================================================
\* RepoVerifier (util/github_repo.py) and deduplicate
\* (subcommands/match_packages.py)
\* ======================================================================
MaxCandidates == 2      \* longest list handed to deduplicate
MaxCount == 1           \* largest forks, watchers or subscribers count
MaxTries == 3           \* calls of try_fn in one catch_renamed_repo

NameA == <<"a", "/", "a">>
NameB == <<"a", "/", "B">>
Malformed == <<"a">>
RepoNames == {NameA, NameB, Malformed}
IsMalformed(n) == full_name_to_parts(n).kind = "raised"

\* meta_data of a repository, as far as deduplicate reads it
MetaData ==
    [full_name : {NameA, NameB}, fork : BOOLEAN, forks_count : 0..MaxCount,
     watchers_count : 0..MaxCount, subscribers_count : 0..MaxCount]

\* what self.repository(owner, name) leads to: no repository, or one
RepoAnswers == {None} \cup MetaData

\* a Python str as a value that can stand where None can
Str(s) == [str |-> s]

Event(ev, name) == [ev |-> ev, name |-> name]

\* The operations share no state (the session's cache is the gate's), so a
\* behaviour runs one of them.
Finished == call.op = "idle"

\* get_repo, lines 201-203, with the answer to the API request of line 202;
\* the second component is the API request made, if any
get_repo(n, answer) ==
    IF full_name_to_parts(n).kind = "raised"
    THEN <<full_name_to_parts(n), <<>>>>
    ELSE <<[kind |-> "returned", value |-> answer], <<Event("repository", n)>>>>

\* get_repo_info, lines 215-216: repo.meta_data if repo else None
get_repo_info(n, answer) == get_repo(n, answer)

GetRepo ==
    /\ Finished
    /\ \E n \in RepoNames, answer \in RepoAnswers :
          /\ call' = [op |-> "get_repo", full_name |-> n, pc |-> "done"]
          /\ result' = get_repo(n, answer)[1]
          /\ trace' = get_repo(n, answer)[2]
    /\ UNCHANGED outsideRepos

GetRepoInfo ==
    /\ Finished
    /\ \E n \in RepoNames, answer \in RepoAnswers :
          /\ call' = [op |-> "get_repo_info", full_name |-> n, pc |-> "done"]
          /\ result' = get_repo_info(n, answer)[1]
          /\ trace' = get_repo_info(n, answer)[2]
    /\ UNCHANGED outsideRepos

\* ------------------------------------------------------------ deduplicate
\* repo_names[0]['full_name'] in lines 65, 75: the candidates are strings
\* (Package.github_info['repos'], tested with `link in ...`), and a string
\* subscripted with a string raises TypeError
SubscriptFullName(repo_name) == [kind |-> "raised", exc |-> "TypeError"]

\* line 72: {repo['full_name']: repo for repo in repos if repo}.values().  A
\* key keeps the place of its first insertion and the value of its last.
RECURSIVE ByCanonicalName(_)
ByCanonicalName(repos) ==
    IF repos = <<>> THEN <<>>
    ELSE LET init == ByCanonicalName(SubSeq(repos, 1, Len(repos) - 1))
             repo == repos[Len(repos)]
         IN  IF repo = None THEN init
             ELSE IF \E i \in DOMAIN init : init[i].full_name = repo.full_name
             THEN [i \in DOMAIN init |->
                      IF init[i].full_name = repo.full_name THEN repo ELSE init[i]]
             ELSE Append(init, repo)

\* line 77
NotForks(repos) == SelectSeq(repos, LAMBDA r : ~r.fork)

\* line 84: max(repos, key=lambda r: r[metric]) is the first repository with
\* the largest value of the metric: the dict, not the value
MaxByMetric(repos, metric) ==
    LET best == CHOOSE i \in DOMAIN repos :
                   /\ \A j \in DOMAIN repos : repos[j][metric] <= repos[i][metric]
                   /\ \A j \in 1..(i - 1) : repos[j][metric] < repos[i][metric]
    IN  [dict |-> repos[best]]

\* line 85: r[metric] == max_value, an int compared with whatever max_value is
MetricIsMax(r, metric, max_value) == IntVal(r[metric]) = max_value

\* lines 79-85
RECURSIVE NarrowBy(_, _)
NarrowBy(repos, metrics) ==
    IF metrics = <<>> \/ Len(repos) = 1 \/ repos = <<>>
    THEN repos
    ELSE LET metric == Head(metrics)
             max_value == MaxByMetric(repos, metric)
         IN  NarrowBy(SelectSeq(repos, LAMBDA r : MetricIsMax(r, metric, max_value)),
                      Tail(metrics))

Metrics == <<"forks_count", "watchers_count", "subscribers_count">>

\* lines 72-89, for the list of answers of get_repo_info
MostPopular(repos) ==
    LET left == NarrowBy(NotForks(ByCanonicalName(repos)), Metrics)
    IN  IF Len(left) = 1 THEN Str(left[1].full_name) ELSE None

WellFormed(repo_names) ==
    { repo_names[i] : i \in { j \in DOMAIN repo_names : ~IsMalformed(repo_names[j]) } }

\* what the hosting API knows about the candidates while deduplicate runs:
\* two names that lead to the same full_name lead to the same repository
Hosted(names) ==
    { github \in [names -> RepoAnswers] :
        \A m, n \in names :
            (github[m] # None /\ github[n] # None
               /\ github[m].full_name = github[n].full_name) => github[m] = github[n] }

\* deduplicate(repo_names, repo_verifier), lines 64-65
Deduplicate_Call ==
    /\ Finished
    /\ \E repo_names \in StringsOver(RepoNames, MaxCandidates) :
       \E github \in Hosted(WellFormed(repo_names)) :
          /\ call' = [op |-> "deduplicate", repo_names |-> repo_names,
                      github |-> github, repos |-> <<>>,
                      pc |-> IF Len(repo_names) = 1 THEN "done" ELSE "fetch"]
          /\ result' = IF Len(repo_names) = 1
                       THEN SubscriptFullName(repo_names[1])
                       ELSE NoRet
    /\ trace' = <<>>
    /\ UNCHANGED outsideRepos

\* lines 68-70: one get_repo_info per candidate, in the order of the list
Deduplicate_Fetch ==
    /\ call.op = "deduplicate" /\ call.pc = "fetch"
    /\ Len(call.repos) < Len(call.repo_names)
    /\ LET repo_name == call.repo_names[Len(call.repos) + 1]
           answer == IF IsMalformed(repo_name) THEN None ELSE call.github[repo_name]
           info == get_repo_info(repo_name, answer)
       IN  /\ trace' = trace \o info[2]
           /\ IF info[1].kind = "raised"
              THEN call' = [call EXCEPT !.pc = "done"] /\ result' = info[1]
              ELSE /\ call' = [call EXCEPT !.repos = Append(@, info[1].value)]
                   /\ result' = result
    /\ UNCHANGED outsideRepos

\* lines 72-89
Deduplicate_Filter ==
    /\ call.op = "deduplicate" /\ call.pc = "fetch"
    /\ Len(call.repos) = Len(call.repo_names)
    /\ call' = [call EXCEPT !.pc = "done"]
    /\ result' = [kind |-> "returned", value |-> MostPopular(call.repos)]
    /\ UNCHANGED trace
    /\ UNCHANGED outsideRepos

\* ----------------------------------------------------- catch_renamed_repo
\* how a call of try_fn ends: it returns, or raises GitHubError with code
\* 422 or another code, or raises something that is no GitHubError
TryOutcomes == {"returned", "GitHubError 422", "GitHubError 404", "Exception"}

\* the value of try_fn(repo_name)
TryResult(repo_name) == [try_fn |-> repo_name]

Tries == Len(SelectSeq(trace, LAMBDA e : e.ev = "try_fn"))

\* lines 263-267: where the loop goes after try_fn(repo_name) ended.  A
\* GitHubError with another code than 422 ends the except block with nothing
\* done, and the loop comes round with the same name.
AfterTry(outcome) ==
    CASE outcome = "returned" -> "return"
      [] outcome = "GitHubError 422" -> "resolve"
      [] outcome = "GitHubError 404" -> "try"
      [] OTHER -> "raise"

\* lines 270-281, for the answer of self.repository(*parts).  `same` says
\* whether repo.full_name and repo_name are one object, which `is not` tests;
\* two strings with different values never are.
AfterResolve_KeepName(repo_name, repo, same) ==
    IF repo = None THEN [do |-> "return"]
    ELSE IF repo.full_name # repo_name \/ ~same
    THEN [do |-> "try", repo_name |-> repo_name]
    ELSE [do |-> "raise"]

AfterResolve(repo_name, repo, same) ==
    IF repo = None THEN [do |-> "return"]
    ELSE IF repo.full_name # repo_name \/ ~same
    THEN [do |-> "try", repo_name |-> repo.full_name]
    ELSE [do |-> "raise"]

\* catch_renamed_repo(repo_name, try_fn), line 262 for the first time
CatchRenamedRepo_Call ==
    /\ Finished
    /\ \E repo_name \in RepoNames :
          call' = [op |-> "catch_renamed_repo", first |-> repo_name,
                   repo_name |-> repo_name, pc |-> "try"]
    /\ trace' = <<>>
    /\ result' = NoRet
    /\ UNCHANGED outsideRepos

\* lines 263-267
CatchRenamedRepo_Try ==
    /\ call.op = "catch_renamed_repo" /\ call.pc = "try"
    /\ Tries < MaxTries
    /\ \E outcome \in TryOutcomes :
          /\ trace' = Append(trace, [ev |-> "try_fn", name |-> call.repo_name,
                                     outcome |-> outcome])
          /\ CASE AfterTry(outcome) = "return" ->
                    /\ call' = [call EXCEPT !.pc = "done"]
                    /\ result' = [kind |-> "returned",
                                  value |-> <<Str(call.repo_name),
                                              TryResult(call.repo_name)>>]
               [] AfterTry(outcome) = "raise" ->
                    /\ call' = [call EXCEPT !.pc = "done"]
                    /\ result' = [kind |-> "raised", exc |-> outcome]
               [] OTHER ->
                    /\ call' = [call EXCEPT !.pc = AfterTry(outcome)]
                    /\ result' = result
    /\ UNCHANGED outsideRepos

\* lines 269-281
CatchRenamedRepo_Resolve ==
    /\ call.op = "catch_renamed_repo" /\ call.pc = "resolve"
    /\ LET parts_ == full_name_to_parts(call.repo_name)
       IN  IF parts_.kind = "raised"
           THEN /\ call' = [call EXCEPT !.pc = "done"]
                /\ result' = parts_
                /\ trace' = trace
           ELSE \E repo \in {None} \cup [full_name : {NameA, NameB}], same \in BOOLEAN :
                   LET next == AfterResolve(call.repo_name, repo, same)
                   IN  /\ trace' = Append(trace, [ev |-> "repository",
                                                  name |-> call.repo_name,
                                                  answer |-> repo])
                       /\ CASE next.do = "return" ->
                                 /\ call' = [call EXCEPT !.pc = "done"]
                                 /\ result' = [kind |-> "returned", value |-> <<None, None>>]
                            [] next.do = "raise" ->
                                 /\ call' = [call EXCEPT !.pc = "done"]
                                 /\ result' = [kind |-> "raised", exc |-> "GitHubError 422"]
                            [] OTHER ->
                                 /\ call' = [call EXCEPT !.pc = "try",
                                                         !.repo_name = next.repo_name]
                                 /\ result' = result
    /\ UNCHANGED outsideRepos

ReposInit ==
    /\ ReposIdle
    /\ GateIdle /\ NamesIdle /\ SearchIdle /\ StatsIdle /\ HistoryIdle /\ GradleIdle
    /\ LaterIdle

ReposNext ==
    \/ GetRepo
    \/ GetRepoInfo
    \/ Deduplicate_Call
    \/ Deduplicate_Fetch
    \/ Deduplicate_Filter
    \/ CatchRenamedRepo_Call
    \/ CatchRenamedRepo_Try
    \/ CatchRenamedRepo_Resolve

SpecRepos == ReposInit /\ [][ReposNext]_vars

RenamedNext ==
    \/ CatchRenamedRepo_Call
    \/ CatchRenamedRepo_Try
    \/ CatchRenamedRepo_Resolve

SpecRenamed == ReposInit /\ [][RenamedNext]_vars

\* ------------------------------------------------------ claims C12-C14
Done == call.op # "idle" /\ call.pc = "done"

\* the identifiers the running operation was handed
Handed ==
    CASE call.op = "deduplicate" -> call.repo_names
      [] call.op = "catch_renamed_repo" -> <<call.first>>
      [] OTHER -> <<call.full_name>>

ApiRequests == SelectSeq(trace, LAMBDA e : e.ev = "repository")

\* C12 (as stated): get_repo, get_repo_info, deduplicate and
\* catch_renamed_repo end with ValueError when an identifier handed to them is
\* malformed, no API request names a malformed identifier, and deduplicate
\* makes no request for a candidate after the first malformed one.
\* deduplicate does not look at a lone candidate at all, and
\* catch_renamed_repo parses the name only after try_fn failed with 422.
C12_MalformedIsFatal ==
    Done =>
        LET bad == { i \in DOMAIN Handed : IsMalformed(Handed[i]) }
        IN  bad # {} =>
               /\ result = [kind |-> "raised", exc |-> "ValueError"]
               /\ \A k \in DOMAIN ApiRequests : ~IsMalformed(ApiRequests[k].name)
               /\ \A i \in bad : Len(ApiRequests) < i

DedupDone == call.op = "deduplicate" /\ call.pc = "done"

AllWellFormed == \A i \in DOMAIN call.repo_names : ~IsMalformed(call.repo_names[i])

\* what the hosting API knows about the i-th candidate
Candidate(i) == call.github[call.repo_names[i]]

NonForks ==
    { i \in DOMAIN call.repo_names : Candidate(i) # None /\ ~Candidate(i).fork }

ReturnedValue(v) == result = [kind |-> "returned", value |-> v]

\* C13 (as stated): with two or more candidates, all of them reachable, a
\* candidate that is no fork and has more forks than every other candidate
\* that is no fork is what deduplicate returns.  Line 84 keeps the dict that
\* max() returns, line 85 compares each count with it, nothing is equal to
\* it, and the list is empty from then on.
C13_MostForkedWins ==
    ( /\ DedupDone /\ AllWellFormed
      /\ Len(call.repo_names) >= 2
      /\ \A i \in DOMAIN call.repo_names : Candidate(i) # None )
    => \A i \in NonForks :
          (\A j \in NonForks \ {i} :
              Candidate(j).forks_count < Candidate(i).forks_count)
          => ReturnedValue(Str(Candidate(i).full_name))

Tied(i, j) ==
    \A k \in DOMAIN Metrics : Candidate(i)[Metrics[k]] = Candidate(j)[Metrics[k]]

\* C14 (as stated): deduplicate returns None for an empty list, when every
\* candidate is unreachable, when every candidate is a fork and when the
\* candidates that are no forks are two or more repositories tied on the three
\* counts; a name it returns is the full_name of a candidate that was fetched
\* and is no fork.  For a list of one candidate line 65 subscripts a string
\* with 'full_name' and the call ends with TypeError.
C14_NoneUnlessUniqueSurvivor ==
    (DedupDone /\ AllWellFormed) =>
        /\ call.repo_names = <<>> => ReturnedValue(None)
        /\ (\A i \in DOMAIN call.repo_names : Candidate(i) = None)
              => ReturnedValue(None)
        /\ (\A i \in DOMAIN call.repo_names : Candidate(i) # None /\ Candidate(i).fork)
              => ReturnedValue(None)
        /\ ( /\ \E i, j \in NonForks : Candidate(i).full_name # Candidate(j).full_name
             /\ \A i, j \in NonForks : Tied(i, j) )
              => ReturnedValue(None)
        /\ (result.kind = "returned" /\ result.value # None)
              => \E i \in NonForks :
                    /\ i <= Len(call.repos)
                    /\ Str(Candidate(i).full_name) = result.value

\* ------------------------------------------------------ claims C18-C19
Renaming == call.op = "catch_renamed_repo"

\* C18 (as stated): when try_fn raises a GitHubError with another code than
\* 422, or any other exception, catch_renamed_repo ends with that exception
\* at once and try_fn is not called again.  The except clause catches every
\* GitHubError and acts on 422 only; with another code the loop goes on and
\* calls try_fn with the same name again.
C18_OtherExceptionsPassThrough ==
    Renaming =>
        \A k \in DOMAIN trace :
            (trace[k].ev = "try_fn"
               /\ trace[k].outcome \in {"GitHubError 404", "Exception"})
            => /\ k = Len(trace)
               /\ call.pc = "done"
               /\ result = [kind |-> "raised", exc |-> trace[k].outcome]

\* the name the loop holds when the k-th event happens: the argument, or the
\* full_name of the last repository the API has answered with before
RECURSIVE ChainName(_)
ChainName(k) ==
    IF k = 1 THEN call.first
    ELSE IF trace[k - 1].ev = "repository" /\ trace[k - 1].answer # None
    THEN trace[k - 1].answer.full_name
    ELSE ChainName(k - 1)

\* C19: every call of try_fn and every API request is made for the current
\* name of the chain repo_name -> full_name the API answers with -> ...; a
\* pair (n, r) that is returned has n the name try_fn was last called with,
\* that call is the first that returned and r is its value; once the API
\* answers that it knows no repository, nothing more is called and the
\* outcome is (None, None), which is returned in no other case.
C19_FirstSuccessOrNone ==
    Renaming =>
        /\ \A k \in DOMAIN trace : trace[k].name = ChainName(k)
        /\ \A k \in DOMAIN trace :
              (trace[k].ev = "try_fn" /\ trace[k].outcome = "returned")
              => /\ k = Len(trace)
                 /\ call.pc = "done"
                 /\ result = [kind |-> "returned",
                              value |-> <<Str(ChainName(k)), TryResult(ChainName(k))>>]
        /\ \A k \in DOMAIN trace :
              (trace[k].ev = "repository" /\ trace[k].answer = None)
              => /\ k = Len(trace)
                 /\ call.pc = "done"
                 /\ result = [kind |-> "returned", value |-> <<None, None>>]
        /\ result.kind = "returned"
              => /\ trace # <<>>
                 /\ \/ trace[Len(trace)].ev = "try_fn"
                       /\ trace[Len(trace)].outcome = "returned"
                    \/ trace[Len(trace)].ev = "repository"
                       /\ trace[Len(trace)].answer = None

\* a repository renamed from NameA to NameB: try_fn fails with 422 for the
\* old name, the API answers with the new one, try_fn returns for it
C19_Witness ==
    /\ Renaming /\ call.pc = "done"
    /\ call.first = NameA
    /\ Len(trace) = 3
    /\ trace[2].ev = "repository" /\ trace[2].answer # None
    /\ result = [kind |-> "returned", value |-> <<Str(NameB), TryResult(NameB)>>]

\* ======================================================================
\* RecursiveSearch / GithubLinkSearch (util/recursive_search.py)
\* ======================================================================
MaxTextLen == 6         \* longest text, in tokens, searched on its own

\* A text is a sequence of tokens, each a run of characters the pattern
\* cannot tell apart: words of [a-z0-9_-] ("github" among them), ".com", the
\* slash, the encoded slash "%2F", and text that is neither.
Words == {"github", "GitHub", "https", "owner", "repo", "blob", "x", "o"}
LinkTokens == {"github", ".com", "/", "%2F", "o"}

\* (?i)github
IsGithub(token) == token \in {"github", "GitHub"}

\* (\/|%2F)
IsSeparator(token) == token \in {"/", "%2F"}

\* [a-z0-9_-]+ from position i on: the last position of the longest run of
\* words (i - 1 if there is none)
RECURSIVE WordsEnd(_, _)
WordsEnd(s, i) ==
    IF i <= Len(s) /\ s[i] \in Words THEN WordsEnd(s, i + 1) ELSE i - 1

\* the match of GITHUB_LINK_PATTERN that starts at position i, if there is
\* one: github\.com, a separator, a name, the same separator (\1), a name
MatchAt(s, i) ==
    IF i + 2 <= Len(s) /\ IsGithub(s[i]) /\ s[i + 1] = ".com" /\ IsSeparator(s[i + 2])
    THEN LET ownerEnd == WordsEnd(s, i + 3)
             repoEnd == WordsEnd(s, ownerEnd + 2)
         IN  IF /\ ownerEnd >= i + 3
                /\ ownerEnd + 1 <= Len(s) /\ s[ownerEnd + 1] = s[i + 2]
                /\ repoEnd >= ownerEnd + 2
             THEN [kind |-> "match", end |-> repoEnd,
                   groups |-> <<s[i + 2], SubSeq(s, i + 3, ownerEnd),
                                SubSeq(s, ownerEnd + 2, repoEnd)>>]
             ELSE None
    ELSE None

\* re.findall(pattern, s) from position i on: matches from left to right,
\* each search starting where the last match ended
RECURSIVE FindAll(_, _)
FindAll(s, i) ==
    IF i > Len(s) THEN <<>>
    ELSE IF MatchAt(s, i) = None THEN FindAll(s, i + 1)
    ELSE <<MatchAt(s, i).groups>> \o FindAll(s, MatchAt(s, i).end + 1)

\* '{1}/{2}'.format(*groups)
FormatMatch(groups) == groups[2] \o <<"/">> \o groups[3]

\* ParsedJSON: dict (items in their order), list, str, number, bool, None
Dict(items) == [dict |-> items]
List(items) == [list |-> items]
Item(k, v) == [k |-> k, v |-> v]
IsDict(v) == DOMAIN v = {"dict"}
IsList(v) == DOMAIN v = {"list"}
IsStr(v) == DOMAIN v = {"str"}

\* path + (index,) with the index enumerate() counts from 1
ListSegment_FromOne(path, i) == Append(path, IntVal(i))

\* path + (k,) and path + (index,); i is the place in the TLA+ sequence
DictSegment(path, k) == Append(path, Str(k))
ListSegment(path, i) == Append(path, IntVal(i - 1))

SearchCall(v, path) == [haystack |-> v, path |-> path]

\* _search_dict and _search_list: the calls of search() they make, in order
SearchDict(d, path) ==
    [i \in DOMAIN d |-> SearchCall(d[i].v, DictSegment(path, d[i].k))]
SearchList(l, path) ==
    [i \in DOMAIN l |-> SearchCall(l[i], ListSegment(path, i))]

\* GithubLinkSearch._search_str: what it appends to self.results
SearchStr(s, path) ==
    LET found == FindAll(s, 1)
    IN  [i \in DOMAIN found |-> [path |-> path, match |-> FormatMatch(found[i])]]

\* the texts and other leaves the nested values hold
ExampleLink ==
    <<"https", ":", "/", "/", "github", ".com", "/", "owner", "/", "repo",
      "/", "blob", "/", "x">>
TwoLinks ==
    <<"GitHub", ".com", "%2F", "o", "%2F", "x", " ", "github", ".com", "/",
      "x", "/", "o">>
NoLink == <<"github", ".com", "/", "owner", "%2F", "repo">>
Leaves == {Str(ExampleLink), Str(TwoLinks), Str(NoLink), IntVal(1), [bool |-> TRUE], None}

\* the value of the example: the link at path ("a", 2, "b")
Nested(x, y, z) ==
    Dict(<<Item("a", List(<<x, y, Dict(<<Item("b", z)>>)>>))>>)

\* a key that reads like a link: keys are not searched
LinkKey == "github.com/o/x"

Haystacks ==
    { Str(s) : s \in StringsOver(LinkTokens, MaxTextLen) }
    \cup Leaves
    \cup { List(<<x, y>>) : x, y \in Leaves }
    \cup { Dict(<<Item("b", x), Item(LinkKey, y)>>) : x, y \in Leaves }
    \cup { Nested(x, y, z) : x, y, z \in Leaves }
    \cup { List(<<Dict(<<Item("b", x), Item("a", List(<<y>>))>>), z>>) : x, y, z \in Leaves }

\* search.search(haystack) on a new GithubLinkSearch()
SearchInit ==
    /\ haystack \in Haystacks
    /\ todo = <<SearchCall(haystack, <<>>)>>
    /\ results = <<>>
    /\ GateIdle /\ NamesIdle /\ ReposIdle /\ StatsIdle /\ HistoryIdle /\ GradleIdle
    /\ LaterIdle

\* one call of search(), lines 32-38; the calls it makes in turn are run
\* before what was left to do
Search ==
    /\ todo # <<>>
    /\ LET v == Head(todo).haystack
           path == Head(todo).path
       IN  CASE IsDict(v) ->
                   /\ todo' = SearchDict(v.dict, path) \o Tail(todo)
                   /\ results' = results
             [] IsList(v) ->
                   /\ todo' = SearchList(v.list, path) \o Tail(todo)
                   /\ results' = results
             [] IsStr(v) ->
                   /\ todo' = Tail(todo)
                   /\ results' = results \o SearchStr(v.str, path)
             [] OTHER ->
                   /\ todo' = Tail(todo)
                   /\ results' = results
    /\ UNCHANGED haystack
    /\ UNCHANGED outsideSearch

SearchNext == Search

SpecSearch == SearchInit /\ [][SearchNext]_vars

\* ----------------------------------------------------------- claim C15
\* the leaves of a value from first to last, each with the keys and indices
\* that lead to it from the root
RECURSIVE LeavesOf(_, _)
LeavesOf(v, at) ==
    IF IsDict(v) \/ IsList(v)
    THEN LET items == IF IsDict(v) THEN v.dict ELSE v.list
             RECURSIVE From(_)
             From(i) ==
                 IF i > Len(items) THEN <<>>
                 ELSE (IF IsDict(v)
                       THEN LeavesOf(items[i].v, at \o <<Str(items[i].k)>>)
                       ELSE LeavesOf(items[i], at \o <<IntVal(i - 1)>>))
                      \o From(i + 1)
         IN  From(1)
    ELSE <<[at |-> at, leaf |-> v]>>

\* one result per match of each string leaf, with the leaf's path, the
\* leaves taken from first to last
RECURSIVE ResultsOf(_)
ResultsOf(leaves) ==
    IF leaves = <<>> THEN <<>>
    ELSE LET l == Head(leaves)
             found == IF IsStr(l.leaf) THEN FindAll(l.leaf.str, 1) ELSE <<>>
         IN  [i \in DOMAIN found |->
                 [path |-> l.at, match |-> found[i][2] \o <<"/">> \o found[i][3]]]
             \o ResultsOf(Tail(leaves))

\* C15: when search() has returned, self.results holds, for the leaves of the
\* value from first to last, one result per match in each string leaf, with
\* the keys and indices from the root to that leaf as its path, and nothing
\* for numbers, booleans, None and keys; for the link
\* "https://github.com/owner/repo/blob/x" alone at ("a", 2, "b") that is the
\* one result with match "owner/repo" and path ("a", 2, "b").
C15_OneResultPerMatchWithPath ==
    todo = <<>> =>
        /\ results = ResultsOf(LeavesOf(haystack, <<>>))
        /\ haystack = Nested(None, IntVal(1), Str(ExampleLink))
              => results = <<[path |-> <<Str("a"), IntVal(2), Str("b")>>,
                              match |-> <<"owner", "/", "repo">>]>>

C15_Witness ==
    /\ todo = <<>>
    /\ haystack = Nested(None, IntVal(1), Str(ExampleLink))
    /\ Len(results) = 1

\* ======================================================================
\* GitHistory._parse_stats (util/bare_git.py)
\* ======================================================================
MaxStat == 2            \* largest count in a shortstat line
MaxStatsLen == 4        \* longest shortstat text, in tokens

\* A shortstat text is a sequence of tokens: " <n> file(s) changed",
\* ", <n> insertion(s)(+)", ", <n> deletion(s)(-)" with <n> in decimal
\* digits, the line feed, and a blank.
FilesToken(n) == [t |-> "files", n |-> DecStr(n)]
InsertionsToken(n) == [t |-> "insertions", n |-> DecStr(n)]
DeletionsToken(n) == [t |-> "deletions", n |-> DecStr(n)]
LineFeed == [t |-> "\n"]
Blank == [t |-> " "]

StatsTokens ==
    {FilesToken(1), LineFeed, Blank}
    \cup { InsertionsToken(n) : n \in 0..MaxStat }
    \cup { DeletionsToken(n) : n \in 0..MaxStat }

\* str.splitlines(): the text cut at each line feed, without a last empty line
RECURSIVE SplitLines(_)
SplitLines(s) ==
    IF s = <<>> THEN <<>>
    ELSE LET feeds == { i \in DOMAIN s : s[i] = LineFeed }
         IN  IF feeds = {} THEN <<s>>
             ELSE LET i == CHOOSE x \in feeds : \A y \in feeds : x <= y
                  IN  <<SubSeq(s, 1, i - 1)>> \o SplitLines(SubSeq(s, i + 1, Len(s)))

\* STATS_REGEX.match(line): the files group at the start of the line, then the
\* insertions group if it follows, then the deletions group if it follows
STATS_REGEX_match(line) ==
    IF line # <<>> /\ line[1].t = "files"
    THEN LET ins == Len(line) >= 2 /\ line[2].t = "insertions"
             d == IF ins THEN 3 ELSE 2
             del == Len(line) >= d /\ line[d].t = "deletions"
         IN  [kind |-> "match",
              groups |-> <<Str(line[1].n),
                           IF ins THEN Str(line[2].n) ELSE None,
                           IF del THEN Str(line[d].n) ELSE None>>]
    ELSE None

\* int(match.group(k) or 0)
IntOrZero(group) == IF group = None \/ group.str = <<>> THEN 0 ELSE ParseInt(group.str)

Additions(match) == IntOrZero(match.groups[2])

\* the deletions read from the insertions group
Deletions_FromInsertions(match) == IntOrZero(match.groups[2])

Deletions(match) == IntOrZero(match.groups[3])

\* _parse_stats, lines 296-306
RECURSIVE ParseLines(_)
ParseLines(lines) ==
    IF lines = <<>>
    THEN [additions |-> 0, deletions |-> 0, total |-> 0]
    ELSE LET match == STATS_REGEX_match(Head(lines))
         IN  IF match # None
             THEN [additions |-> Additions(match),
                   deletions |-> Deletions(match),
                   total |-> Additions(match) + Deletions(match)]
             ELSE ParseLines(Tail(lines))

_parse_stats(s) == ParseLines(SplitLines(s))

StatsInit ==
    /\ stats_str \in StringsOver(StatsTokens, MaxStatsLen)
    /\ stats = NoRet
    /\ GateIdle /\ NamesIdle /\ ReposIdle /\ SearchIdle /\ HistoryIdle /\ GradleIdle
    /\ LaterIdle

ParseStats ==
    /\ stats = NoRet
    /\ stats' = [kind |-> "returned", value |-> _parse_stats(stats_str)]
    /\ UNCHANGED stats_str
    /\ UNCHANGED outsideStats

StatsNext == ParseStats

SpecStats == StatsInit /\ [][StatsNext]_vars

\* ----------------------------------------------------------- claim C16
\* the places where a line of the text starts and its files group stands
ShortstatStarts ==
    { i \in DOMAIN stats_str :
        /\ stats_str[i].t = "files"
        /\ i = 1 \/ stats_str[i - 1] = LineFeed }

Kind(i) == IF i \in DOMAIN stats_str THEN stats_str[i].t ELSE "end"

\* C16: the outcome has total = additions + deletions and none of the three
\* below 0; when the first line that matches has the insertions group and not
\* the deletions group, deletions is 0 and additions is the count of that
\* group; when it has the deletions group only, additions is 0 and deletions
\* is the count of that group; when no line matches, all three are 0.
C16_StatsAddUp ==
    stats # NoRet =>
        LET v == stats.value
        IN  /\ v.total = v.additions + v.deletions
            /\ v.additions >= 0 /\ v.deletions >= 0 /\ v.total >= 0
            /\ ShortstatStarts = {} => v = [additions |-> 0, deletions |-> 0, total |-> 0]
            /\ ShortstatStarts # {} =>
                  LET i == CHOOSE x \in ShortstatStarts : \A y \in ShortstatStarts : x <= y
                  IN  /\ (Kind(i + 1) = "insertions" /\ Kind(i + 2) # "deletions")
                            => /\ v.deletions = 0
                               /\ v.additions = ParseInt(stats_str[i + 1].n)
                      /\ Kind(i + 1) = "deletions"
                            => /\ v.additions = 0
                               /\ v.deletions = ParseInt(stats_str[i + 1].n)

\* " 1 file changed, 2 deletions(-)" on the second line
C16_Witness ==
    /\ stats # NoRet
    /\ stats_str = <<LineFeed, FilesToken(1), DeletionsToken(MaxStat), LineFeed>>
    /\ stats.value = [additions |-> 0, deletions |-> MaxStat, total |-> MaxStat]

\* ======================================================================
\* GitHistory.iter_commits (util/bare_git.py)
\* ======================================================================
MaxBlocks == 3          \* blocks in the output of git log

\* The text of the log is a sequence of lines and separators; a separator
\* stands for its line with the line feeds around it.  A metadata line is
\* "key:value", a text line holds shortstat tokens (none for other text).
CommitSeparator == [t |-> "\n------\n"]
SectionSeparator == [t |-> "\n---\n"]
MetaLine(key) == [t |-> "meta", key |-> key, value |-> 1]
TextLine(tokens) == [t |-> "text", tokens |-> tokens]

\* bytes.split(sep): the pieces between the separators, empty ones included
RECURSIVE Split(_, _)
Split(s, sep) ==
    LET seps == { i \in DOMAIN s : s[i] = sep }
    IN  IF seps = {} THEN <<s>>
        ELSE LET i == CHOOSE x \in seps : \A y \in seps : x <= y
             IN  <<SubSeq(s, 1, i - 1)>> \o Split(SubSeq(s, i + 1, Len(s)), sep)

RECURSIVE Join(_, _)
Join(pieces, sep) ==
    IF Len(pieces) = 0 THEN <<>>
    ELSE IF Len(pieces) = 1 THEN pieces[1]
    ELSE pieces[1] \o <<sep>> \o Join(Tail(pieces), sep)

ValueError == [kind |-> "raised", exc |-> "ValueError"]

\* _parse_meta, lines 237-252: a dict of the keys, or ValueError for a line
\* that is not blank and has no colon
RECURSIVE _parse_meta(_)
_parse_meta(lines) ==
    IF lines = <<>> THEN [kind |-> "returned", value |-> EmptyDict]
    ELSE LET init == _parse_meta(SubSeq(lines, 1, Len(lines) - 1))
             line == lines[Len(lines)]
         IN  IF init.kind = "raised" THEN init
             ELSE IF line.t = "text" /\ line.tokens = <<>> THEN init
             ELSE IF line.t # "meta" THEN ValueError
             ELSE [kind |-> "returned",
                   value |-> [k \in DOMAIN init.value \cup {line.key} |->
                                 IF k = line.key THEN line.value ELSE init.value[k]]]

\* stats.decode(): the lines of the section with their line feeds
RECURSIVE StatsText(_)
StatsText(lines) ==
    IF lines = <<>> THEN <<>>
    ELSE lines[1].tokens \o <<LineFeed>> \o StatsText(Tail(lines))

\* _parse_commit, lines 222-228: the unpacking of line 222 needs three sections
_parse_commit(commit_str) ==
    LET sections == Split(commit_str, SectionSeparator)
    IN  IF Len(sections) # 3 THEN ValueError
        ELSE LET meta == _parse_meta(sections[1])
             IN  IF meta.kind = "raised" THEN meta
                 ELSE IF \E i \in DOMAIN sections[3] : sections[3][i].t # "text"
                 THEN ValueError
                 ELSE [kind |-> "returned",
                       value |-> [meta |-> meta.value,
                                  message |-> sections[2],
                                  stats |-> _parse_stats(StatsText(sections[3]))]]

\* the keys of the dict _parse_commit returns
KeysOf(parsed) == DOMAIN parsed.meta \cup {"message", "additions", "deletions", "total"}

\* line 210
HasWinRt(parsed) == "WinRt" \in KeysOf(parsed)

Commit(meta, message, shortstat) ==
    meta \o <<SectionSeparator>> \o message \o <<SectionSeparator>> \o shortstat

Shortstat == TextLine(<<FilesToken(1), InsertionsToken(1)>>)

\* blocks of a log: empty, commits with and without message and shortstat,
\* with a blank metadata line, with the metadata key WinRt, and two blocks
\* that do not parse (two sections only, a metadata line without a colon)
BlockTexts ==
    { <<>>,
      Commit(<<MetaLine("id"), MetaLine("title")>>, <<TextLine(<<>>)>>, <<Shortstat>>),
      Commit(<<MetaLine("id"), TextLine(<<>>)>>, <<>>, <<>>),
      Commit(<<MetaLine("id"), MetaLine("WinRt")>>, <<TextLine(<<>>)>>, <<Shortstat>>),
      <<MetaLine("id"), SectionSeparator, Shortstat>>,
      Commit(<<MetaLine("id"), Shortstat>>, <<>>, <<>>) }

HistoryInit ==
    /\ \E bs \in StringsOver(BlockTexts, MaxBlocks) : output = Join(bs, CommitSeparator)
    /\ visited = 0
    /\ yielded = <<>>
    /\ stopped = "no"
    /\ GateIdle /\ NamesIdle /\ ReposIdle /\ SearchIdle /\ StatsIdle /\ GradleIdle
    /\ LaterIdle

Blocks == Split(output, CommitSeparator)

\* one turn of the loop of lines 206-213
IterCommits_Next ==
    /\ stopped = "no"
    /\ visited < Len(Blocks)
    /\ visited' = visited + 1
    /\ LET commit == Blocks[visited + 1]
           parsed == _parse_commit(commit)
       IN  IF commit = <<>>
           THEN yielded' = yielded /\ stopped' = stopped
           ELSE IF parsed.kind = "raised"
           THEN yielded' = yielded /\ stopped' = "raised"
           ELSE IF HasWinRt(parsed.value)
           THEN /\ yielded' = Append(yielded, [kind |-> "bytes", value |-> commit])
                /\ stopped' = "break"
           ELSE /\ yielded' = Append(yielded, [kind |-> "dict", value |-> parsed.value])
                /\ stopped' = stopped
    /\ UNCHANGED output
    /\ UNCHANGED outsideHistory

\* the loop has gone through every block
IterCommits_End ==
    /\ stopped = "no"
    /\ visited = Len(Blocks)
    /\ stopped' = "exhausted"
    /\ UNCHANGED <<output, visited, yielded>>
    /\ UNCHANGED outsideHistory

HistoryNext ==
    \/ IterCommits_Next
    \/ IterCommits_End

SpecHistory == HistoryInit /\ [][HistoryNext]_vars

\* ----------------------------------------------------------- claim C17
NonEmpty(blocks) == SelectSeq(blocks, LAMBDA b : b # <<>>)

Parses(b) == _parse_commit(b).kind = "returned"

\* C17 (as stated), for a log whose blocks all have the three sections and
\* metadata lines with a colon: what has been yielded is one parsed record
\* per non-empty block gone through, in their order, each built from its
\* block, and the generator ends only when it has gone through every block.
\* A block with a metadata line "WinRt:..." is yielded as it is, unparsed, and
\* ends the iteration (lines 210-212).
C17_OneParsedRecordPerBlock ==
    (\A i \in DOMAIN Blocks : Blocks[i] # <<>> => Parses(Blocks[i])) =>
        LET seen == NonEmpty(SubSeq(Blocks, 1, visited))
        IN  /\ Len(yielded) = Len(seen)
            /\ \A i \in DOMAIN yielded :
                  /\ i <= Len(seen)
                  /\ yielded[i] = [kind |-> "dict", value |-> _parse_commit(seen[i]).value]
            /\ stopped # "no" => (stopped = "exhausted" /\ visited = Len(Blocks))


\* ---------------------------------------------------------------------
\* subcommands/add_gradle_info.py: the CSV table extended from the
\* contents of outdir.
\*
\* fs is the content of outdir: at most one entry per <owner>/<name>
\* path, a directory with the files stored below it (paths relative to the
\* directory) or a symlink to another <owner>/<name> path, as
\* get_gradle_files.symlink_repo leaves it ("May create dead links").
\* repo_list is the rows of the input table, output_list the lines written
\* so far, the header first.
\* A file name is a sequence of tokens, so that a leading dot and the
\* extension are read from the name as glob reads them.

MaxRows == 2
MaxFiles == 2

Dot == "."
BuildGradle == <<"build", Dot, "gradle">>
SettingsGradle == <<"settings", Dot, "gradle">>
HiddenGradle == <<Dot, "local", Dot, "gradle">>
Sub == <<"sub">>
HiddenDir == <<Dot, "idea">>
Readme == <<"README">>

StoredPaths ==
    { <<BuildGradle>>, <<Sub, BuildGradle>>, <<HiddenDir, BuildGradle>>,
      <<HiddenGradle>>, <<SettingsGradle, Readme>>, <<Readme>> }

FooBar == "foo/bar"
OldName == "old/name"
NewName == "new/name"
StoredRepos == {FooBar, OldName}

\* glob._ishidden: the name starts with a dot.
_ishidden(name) == name[1] = Dot

\* fnmatch of a name against '*.gradle'.
MatchesGradle(name) ==
    /\ Len(name) >= 2
    /\ name[Len(name) - 1] = Dot
    /\ name[Len(name)] = "gradle"

Entry(path) == CHOOSE e \in fs : e.path = path
Exists(path) == \E e \in fs : e.path = path

\* os.path.realpath of <outdir>/<path> relative to outdir: the target of
\* a symlink, the path itself otherwise.
RealPath(path) ==
    IF Exists(path) /\ Entry(path).kind = "link"
    THEN Entry(path).target ELSE path

\* The files below <outdir>/<path>/, symlink followed; nothing when the
\* path or the target of the link is missing.
FilesBelow(path) ==
    IF Exists(RealPath(path)) /\ Entry(RealPath(path)).kind = "dir"
    THEN Entry(RealPath(path)).files ELSE {}

\* glob.glob(<outdir>/<path>/**/*.gradle, recursive=True): '**' descends
\* into the directories whose name is not hidden, and '*.gradle' selects
\* the entries of each of them, files or directories, that are not hidden
\* and end in .gradle.
Glob(path) ==
    { p \in UNION { { SubSeq(f, 1, k) : k \in 1..Len(f) } :
                    f \in FilesBelow(path) } :
        /\ \A i \in 1..Len(p) : ~_ishidden(p[i])
        /\ MatchesGradle(p[Len(p)]) }

has_gradle_files(repo_name) == Cardinality(Glob(repo_name)) > 0

get_new_repo_name(repo_name) ==
    IF ~Exists(repo_name) THEN ""
    ELSE IF RealPath(repo_name) # repo_name THEN RealPath(repo_name)
    ELSE ""

InputFieldnames == <<"full_name", "package">>
Fieldnames ==
    InputFieldnames \o <<"has_gradle_files", "renamed_to", "not_found">>
Header == [fieldnames |-> Fieldnames]

Updated(row) ==
    [full_name |-> row.full_name, package |-> row.package,
     has_gradle_files |-> has_gradle_files(row.full_name),
     renamed_to |-> get_new_repo_name(row.full_name),
     not_found |-> ""]

Directories ==
    { [path |-> p, kind |-> "dir", files |-> s, target |-> ""] :
        p \in StoredRepos,
        s \in { t \in SUBSET StoredPaths : Cardinality(t) <= MaxFiles } }

Symlinks ==
    { [path |-> p, kind |-> "link", files |-> {}, target |-> t] :
        p \in StoredRepos, t \in StoredRepos \cup {NewName} }

Absent == [path |-> "", kind |-> "absent", files |-> {}, target |-> ""]

\* One entry per path at most, and a symlink points away from itself at
\* a path that is not a symlink.
Outdirs ==
    { { e[p] : p \in StoredRepos } \ {Absent} :
        e \in { f \in [StoredRepos -> Directories \cup Symlinks \cup {Absent}] :
                  /\ \A p \in StoredRepos : f[p] # Absent => f[p].path = p
                  /\ \A p \in StoredRepos : f[p].kind = "link" =>
                        /\ f[p].target # p
                        /\ f[p].target \in StoredRepos =>
                              f[f[p].target].kind # "link" } }

InputRows == [full_name : StoredRepos, package : {"com.example"}]

GradleInit ==
    /\ fs \in Outdirs
    /\ repo_list \in StringsOver(InputRows, MaxRows)
    /\ output_list = <<>>
    /\ GateIdle /\ NamesIdle /\ ReposIdle /\ SearchIdle /\ StatsIdle
    /\ HistoryIdle
    /\ LaterIdle

\* csv_writer.writeheader()
UpdateCsvTable_Header ==
    /\ output_list = <<>>
    /\ output_list' = <<Header>>
    /\ UNCHANGED <<fs, repo_list>>
    /\ UNCHANGED outsideGradle

\* One turn of the loop over csv_reader.
UpdateCsvTable_Row ==
    /\ output_list # <<>>
    /\ Len(output_list) <= Len(repo_list)
    /\ output_list' =
          Append(output_list, Updated(repo_list[Len(output_list)]))
    /\ UNCHANGED <<fs, repo_list>>
    /\ UNCHANGED outsideGradle

GradleNext == UpdateCsvTable_Header \/ UpdateCsvTable_Row

SpecGradle == GradleInit /\ [][GradleNext]_vars

TableWritten == Len(output_list) = Len(repo_list) + 1

\* A file whose name ends in .gradle is stored below <outdir>/<path>/, at
\* any depth.
GradleFileBelow(path) ==
    \E f \in FilesBelow(path) : MatchesGradle(f[Len(f)])

\* C20: update_csv_table writes one output row per input row, in input
\* order, keeping the input columns; has_gradle_files is True iff at least
\* one *.gradle file exists below <outdir>/<full_name>/ at any depth,
\* renamed_to is empty unless the path resolves to a different repository
\* path, and not_found is always empty.
C20_RowsExtendedFromOutdir ==
    TableWritten =>
        \A i \in 1..Len(repo_list) :
            LET row == repo_list[i]
                out == output_list[i + 1]
            IN  /\ out.full_name = row.full_name
                /\ out.package = row.package
                /\ out.has_gradle_files = GradleFileBelow(row.full_name)
                /\ out.renamed_to =
                      (IF RealPath(row.full_name) # row.full_name
                       THEN RealPath(row.full_name) ELSE "")
                /\ out.not_found = ""


\* ---------------------------------------------------------------------
\* subcommands/get_gradle_files.py, symlink_repo: the rename of a
\* repository recorded as a symlink in outdir, read back by
\* add_gradle_info.get_new_repo_name.
\*
\* A path is the sequence of its components below outdir. The link is made
\* with a target relative to the directory that holds it, and the file
\* system resolves that target from the same directory.

OldOther == "old/other"
RenamePaths == StoredRepos \cup {NewName, OldOther}

PathParts(name) ==
    CASE name = FooBar -> <<"foo", "bar">>
      [] name = OldName -> <<"old", "name">>
      [] name = OldOther -> <<"old", "other">>
      [] name = NewName -> <<"new", "name">>

Outside == "outside outdir/<owner>/<name>"

\* The name of the path below outdir that the components spell.
PathJoin(components) ==
    IF \E n \in RenamePaths : PathParts(n) = components
    THEN CHOOSE n \in RenamePaths : PathParts(n) = components
    ELSE Outside

ParentDir == ".."

\* os.path.split(old_path)[0], below outdir.
Dirname(components) == SubSeq(components, 1, Len(components) - 1)

RECURSIVE CommonPrefixLen(_, _)
CommonPrefixLen(a, b) ==
    IF a # <<>> /\ b # <<>> /\ Head(a) = Head(b)
    THEN 1 + CommonPrefixLen(Tail(a), Tail(b))
    ELSE 0

\* os.path.relpath(path, start): one '..' for each component of start
\* after the common prefix, then the rest of path.
RelPath_FromOutdir(path, start) == path

RelPath(path, start) ==
    LET i == CommonPrefixLen(path, start)
    IN  [k \in 1..(Len(start) - i) |-> ParentDir]
            \o SubSeq(path, i + 1, Len(path))

\* The path a sequence of components names once each '..' has taken away
\* the component before it.
RECURSIVE Normpath(_, _)
Normpath(done, rest) ==
    IF rest = <<>> THEN done
    ELSE IF Head(rest) = ParentDir /\ done # <<>>
    THEN Normpath(SubSeq(done, 1, Len(done) - 1), Tail(rest))
    ELSE Normpath(Append(done, Head(rest)), Tail(rest))

\* The entry os.symlink(rel_path, old_path) makes, with the path the
\* file system reads its relative target as.
symlink_repo(old_name, new_name) ==
    LET dirname == Dirname(PathParts(old_name))
        rel_path == RelPath(PathParts(new_name), dirname)
    IN  [path |-> old_name, kind |-> "link", files |-> {},
         target |-> PathJoin(Normpath(dirname, rel_path))]

\* What download_gradle_files has left in outdir before a rename is
\* recorded: for each repository no entry, or a directory with its gradle
\* files.
DownloadedDir(p, s) == [path |-> p, kind |-> "dir", files |-> s, target |-> ""]

Downloads ==
    { { e[p] : p \in RenamePaths } \ {Absent} :
        e \in { f \in [RenamePaths ->
                         { DownloadedDir(p, {<<Sub, BuildGradle>>}) :
                             p \in RenamePaths } \cup {Absent}] :
                  \A p \in RenamePaths : f[p] # Absent => f[p].path = p } }

SymlinkInit ==
    /\ fs \in Downloads
    /\ repo_list = <<>>
    /\ output_list = <<>>
    /\ GateIdle /\ NamesIdle /\ ReposIdle /\ SearchIdle /\ StatsIdle
    /\ HistoryIdle
    /\ LaterIdle

\* get_gradle_files._main, lines 170-172: the rename of old_name to
\* new_name is recorded when the two differ; new_name is the name the
\* download succeeded under, which is no old name of a rename, and
\* os.symlink raises when old_path exists.
SymlinkRepo ==
    \E old_name \in RenamePaths, new_name \in RenamePaths :
        /\ new_name # old_name
        /\ ~Exists(old_name)
        /\ ~(Exists(new_name) /\ Entry(new_name).kind = "link")
        /\ \A e \in fs : e.target # old_name
        /\ fs' = fs \cup {symlink_repo(old_name, new_name)}
        /\ UNCHANGED <<repo_list, output_list>>
        /\ UNCHANGED outsideGradle

SymlinkNext == SymlinkRepo

SpecSymlink == SymlinkInit /\ [][SymlinkNext]_vars

NeverRenamed(p) == ~Exists(p) \/ Entry(p).kind = "dir"

C21_PlainNamesGiveEmpty ==
    \A p \in RenamePaths : NeverRenamed(p) => get_new_repo_name(p) = ""

C21_LinkReadsBack ==
    \A old_name \in RenamePaths, new_name \in RenamePaths :
        (/\ old_name # new_name
         /\ ~Exists(old_name)
         /\ fs' = fs \cup {symlink_repo(old_name, new_name)})
        => get_new_repo_name(old_name)' = new_name

MaxCommits == 2

CloneColumns == {"full_name", "commit_count", "repo_name"}

\* The text of a cell that holds a number, and int() of that text.
Text(n) == [text |-> n]
int(cell) == cell.text

CellValues(column) ==
    CASE column = "full_name" -> {Str(NameA), Str(NameB)}
      [] column = "commit_count" -> { Text(n) : n \in 0..MaxCommits }
      [] column = "repo_name" -> {Str(<<"a">>)}

RowsOver(fieldnames) ==
    { r \in [fieldnames -> UNION { CellValues(c) : c \in CloneColumns }] :
        \A c \in fieldnames : r[c] \in CellValues(c) }

Tables ==
    UNION { [fieldnames : {f}, rows : StringsOver(RowsOver(f), MaxRows)] :
              f \in SUBSET CloneColumns }

CloneInit ==
    /\ csv_reader \in Tables
    /\ min_commits \in -1..MaxCommits
    /\ line_num = 0
    /\ cloned = <<>>
    /\ exit_status = "start"
    /\ OnlyClone

Has(column) == column \in csv_reader.fieldnames

\* Lines 82-89: the two tests on the fieldnames before the loop.
CloneRepositories_Check ==
    /\ exit_status = "start"
    /\ exit_status' =
          IF ~Has("full_name") THEN "exit 1"
          ELSE IF min_commits > 0 /\ ~Has("commit_count") THEN "exit 1"
          ELSE "loop"
    /\ UNCHANGED <<csv_reader, min_commits, line_num, cloned>>
    /\ UNCHANGED outsideClone

\* not min_commits or int(row['commit_count']) >= min_commits
Enough(row) == min_commits = 0 \/ int(row["commit_count"]) >= min_commits

\* Lines 90-96: one turn of the loop.  A subscript of the row with a column
\* the table does not have raises KeyError, in the test and in the
\* arguments of the log call alike.
CloneRepositories_Row ==
    /\ exit_status = "loop"
    /\ line_num < Len(csv_reader.rows)
    /\ LET row == csv_reader.rows[line_num + 1]
       IN  IF min_commits # 0 /\ ~Has("commit_count")
           THEN /\ exit_status' = "KeyError"
                /\ UNCHANGED <<line_num, cloned>>
           ELSE IF Enough(row)
           THEN /\ cloned' = Append(cloned, row["full_name"])
                /\ line_num' = line_num + 1
                /\ UNCHANGED exit_status
           ELSE IF ~Has("repo_name")
           THEN /\ exit_status' = "KeyError"
                /\ UNCHANGED <<line_num, cloned>>
           ELSE /\ line_num' = line_num + 1
                /\ UNCHANGED <<cloned, exit_status>>
    /\ UNCHANGED <<csv_reader, min_commits>>
    /\ UNCHANGED outsideClone

CloneRepositories_End ==
    /\ exit_status = "loop"
    /\ line_num = Len(csv_reader.rows)
    /\ exit_status' = "done"
    /\ UNCHANGED <<csv_reader, min_commits, line_num, cloned>>
    /\ UNCHANGED outsideClone

CloneNext ==
    \/ CloneRepositories_Check
    \/ CloneRepositories_Row
    \/ CloneRepositories_End

SpecClone == CloneInit /\ [][CloneNext]_vars

CloneOver == exit_status \in {"exit 1", "done", "KeyError"}

MissingColumn ==
    ~Has("full_name") \/ (min_commits > 0 /\ ~Has("commit_count"))

RECURSIVE RowsToClone(_)
RowsToClone(rows) ==
    IF rows = <<>> THEN <<>>
    ELSE (IF Enough(Head(rows)) THEN <<Head(rows)["full_name"]>> ELSE <<>>)
            \o RowsToClone(Tail(rows))

\* C22: clone_repositories exits with status 1 before cloning anything
\* when the input lacks column full_name, or lacks commit_count while
\* min_commits > 0; otherwise it clones a row iff min_commits is 0 or the
\* row's commit_count >= min_commits, and a row below the threshold is
\* only logged and skipped, every later row still being processed.
C22_ExitOrCloneEveryRowAboveThreshold ==
    /\ exit_status = "exit 1" => MissingColumn /\ cloned = <<>>
    /\ exit_status \in {"loop", "done", "KeyError"} => ~MissingColumn
    /\ (CloneOver /\ ~MissingColumn /\ (min_commits = 0 \/ Has("commit_count")))
          => /\ exit_status = "done"
             /\ cloned = RowsToClone(csv_reader.rows)


\* ---------------------------------------------------------------------
\* util/github_repo.py, Repo.count_commits and Repo.has_n_commits.
\*
\* default_branch holds the number of commits N on the default branch and
\* the page size P the commits API answers with.  The API serves the
\* commits in pages of P; a response carries a link to the last page when
\* there is more than one page, and a repository with no commit answers
\* 409.

MaxCommitCount == 5
MaxPerPage == 3

\* Pages of the listing, and the commits on page k.
PageCount(branch) ==
    (branch.commits + branch.per_page - 1) \div branch.per_page

PageLen(branch, k) ==
    IF k < PageCount(branch) THEN branch.per_page
    ELSE branch.commits - branch.per_page * (PageCount(branch) - 1)

\* page_iterator.last_response.links.get('last', {}).get('url', ''), as
\* the query parameters of the URL.
LastRel(branch) ==
    IF PageCount(branch) > 1 THEN [page |-> PageCount(branch)] ELSE <<>>

_parse_num_pages_One(url) == 1

_parse_num_pages(url) ==
    IF "page" \in DOMAIN url THEN url.page ELSE 1

Counted(value, requests) == [value |-> value, requests |-> requests]

count_commits(branch, stop) ==
    IF stop = 0 THEN Counted(0, 0)
    ELSE IF branch.commits = 0 THEN Counted(0, 1)
    ELSE LET num_pages == _parse_num_pages(LastRel(branch))
             count_per_page == branch.per_page
             first == num_pages = 1 \/ (0 < stop /\ stop <= count_per_page)
             count_last_page ==
                 IF first THEN PageLen(branch, 1)
                 ELSE PageLen(branch, num_pages)
         IN  Counted(count_per_page * (num_pages - 1) + count_last_page,
                     IF first THEN 1 ELSE 2)

has_n_commits(branch, n_commits) ==
    LET count == count_commits(branch, n_commits)
    IN  Counted(count.value >= n_commits, count.requests)

CountInit ==
    /\ default_branch \in
          [commits : 0..MaxCommitCount, per_page : 1..MaxPerPage]
    /\ stop_at \in -1..MaxCommitCount + 1
    /\ counted = NoRet
    /\ OnlyCount

CountCommits ==
    /\ counted = NoRet
    /\ counted' = [op |-> "count_commits",
                   ret |-> count_commits(default_branch, stop_at)]
    /\ UNCHANGED <<default_branch, stop_at>>
    /\ UNCHANGED outsideCount

HasNCommits ==
    /\ counted = NoRet
    /\ counted' = [op |-> "has_n_commits",
                   ret |-> has_n_commits(default_branch, stop_at)]
    /\ UNCHANGED <<default_branch, stop_at>>
    /\ UNCHANGED outsideCount

CountNext == CountCommits \/ HasNCommits

SpecCount == CountInit /\ [][CountNext]_vars

CountReturned(op) == counted # NoRet /\ counted.op = op

\* C23: count_commits(stop_at) returns exactly N when stop_at < 0 or
\* N <= stop_at; otherwise some X with 0 < stop_at <= X <= N; 0 for
\* stop_at = 0 and for an empty repository; and makes at most two API
\* requests.
C23_CountWithinBounds ==
    CountReturned("count_commits") =>
        LET N == default_branch.commits
            X == counted.ret.value
        IN  /\ counted.ret.requests <= 2
            /\ (stop_at = 0 \/ N = 0) => X = 0
            /\ (stop_at # 0 /\ (stop_at < 0 \/ N <= stop_at)) => X = N
            /\ (stop_at > 0 /\ N > stop_at) => (stop_at <= X /\ X <= N)

\* C24: has_n_commits(n) is True exactly when the default branch has at
\* least n commits, for every n >= 0, every number of commits and every
\* page size.
C24_HasNCommitsIsExact ==
    (CountReturned("has_n_commits") /\ stop_at >= 0) =>
        counted.ret.value = (default_branch.commits >= stop_at)

\* The threshold lies within the first of several pages, where the count
\* is taken from the first page alone.
C24_Witness ==
    /\ CountReturned("has_n_commits")
    /\ PageCount(default_branch) > 1
    /\ 0 < stop_at /\ stop_at <= default_branch.per_page
    /\ counted.ret.value = TRUE
    /\ counted.ret.requests = 1


\* ------------------------------------------------------ claims C25-C26
\* C25: deduplicate called with a list of exactly one repository name
\* returns that name and makes no API call.
C25_SingleCandidateReturnedAtOnce ==
    (DedupDone /\ Len(call.repo_names) = 1) =>
        /\ ReturnedValue(Str(call.repo_names[1]))
        /\ trace = <<>>

\* try_fn failed with 422 and nothing else went wrong so far.
Only422 ==
    \A k \in DOMAIN trace :
        trace[k].ev = "try_fn" => trace[k].outcome \in {"returned", "GitHubError 422"}

\* C26: when try_fn fails with 422 for a name that the API resolves to that
\* same name, the 422 error is raised to the caller and try_fn is not
\* called with the name again, so that try_fn is called at most once for
\* each name.
C26_SameNameRaises ==
    (Renaming /\ Only422) =>
        /\ \A k \in DOMAIN trace :
              ( /\ trace[k].ev = "repository"
                /\ trace[k].answer # None
                /\ trace[k].answer.full_name = trace[k].name )
              => /\ k = Len(trace)
                 /\ call.pc = "done"
                 /\ result = [kind |-> "raised", exc |-> "GitHubError 422"]
        /\ \A j, k \in DOMAIN trace :
              ( /\ trace[j].ev = "try_fn" /\ trace[k].ev = "try_fn"
                /\ trace[j].name = trace[k].name ) => j = k


\* ---------------------------------------------------------------------
\* subcommands/get_play_data.py, download_package_details: the details of
\* the packages fetched in groups with an external binary.
\*
\* BULK_SIZE is 900 in the source and scaled down here.

MaxPackages == 3
BULK_SIZE == 2
DELAY == 12

PackageNames == {"com.a", "com.b", "com.c"}

\* list(itertools.islice(it, n)): the next n items, fewer at the end.
Group(items, n) == SubSeq(items, 1, IF Len(items) < n THEN Len(items) ELSE n)
AfterGroup(items, n) ==
    SubSeq(items, (IF Len(items) < n THEN Len(items) ELSE n) + 1, Len(items))

\* How subprocess.run(..., check=True) ends.
BinaryOutcomes == {"exit 0", "CalledProcessError"}

\* bulk_fetch_details(package_names).  When the binary fails, run() raises
\* before `process` is assigned, and the handler's logger.debug(
\* process.stderr) raises UnboundLocalError in its turn.
bulk_fetch_details(package_names, outcome) ==
    IF package_names = <<>> THEN [kind |-> "returned", value |-> {}]
    ELSE IF outcome = "exit 0"
    THEN [kind |-> "returned",
          value |-> { package_names[i] : i \in DOMAIN package_names }]
    ELSE [kind |-> "raised", exc |-> "UnboundLocalError"]

PlayInit ==
    /\ package_iterator \in StringsOver(PackageNames, MaxPackages)
    /\ batches = <<>>
    /\ files = {}
    /\ slept = 0
    /\ play_status = "running"
    /\ OnlyPlay

\* Lines 106-112: one turn of the loop over grouper(...).
DownloadPackageDetails_Batch ==
    /\ play_status = "running"
    /\ package_iterator # <<>>
    /\ \E outcome \in BinaryOutcomes :
          LET packages == Group(package_iterator, BULK_SIZE)
              details == bulk_fetch_details(packages, outcome)
          IN  /\ batches' = Append(batches, [packages |-> packages,
                                             outcome |-> outcome])
              /\ package_iterator' = AfterGroup(package_iterator, BULK_SIZE)
              /\ IF details.kind = "raised"
                 THEN /\ play_status' = details.exc
                      /\ UNCHANGED <<files, slept>>
                 ELSE /\ files' = files \cup details.value
                      /\ slept' = slept + DELAY
                      /\ UNCHANGED play_status
    /\ UNCHANGED outsidePlay

\* grouper finds no further item.
DownloadPackageDetails_End ==
    /\ play_status = "running"
    /\ package_iterator = <<>>
    /\ play_status' = "done"
    /\ UNCHANGED <<package_iterator, batches, files, slept>>
    /\ UNCHANGED outsidePlay

PlayNext == DownloadPackageDetails_Batch \/ DownloadPackageDetails_End

SpecPlay == PlayInit /\ [][PlayNext]_vars

Fetched ==
    UNION { { batches[k].packages[i] : i \in DOMAIN batches[k].packages } :
              k \in { j \in DOMAIN batches : batches[j].outcome = "exit 0" } }

\* C27: when the binary exits with an error for a batch, no file is
\* written for that batch, the delay between batches is still slept and
\* the run goes on to the next batch; every package of a successful batch
\* gets its <package>.json file.
C27_FailedBatchIsSkipped ==
    /\ play_status \in {"running", "done"}
    /\ slept = DELAY * Len(batches)
    /\ files = Fetched


\* ---------------------------------------------------------------------
\* subcommands/prepare_neo4j_import.py: the contributors of a commit
\* formatted as nodes and relations.
\*
\* input_row is a row of the commits table.  An e-mail address is a
\* sequence of tokens so that str.strip() has blanks to take away; it is
\* never empty, so node_index always builds the id from the address.

CONTRIBUTOR_TYPE_AUTHOR == "AUTHOR"
CONTRIBUTOR_TYPE_COMMITTER == "COMMITTER"
COMMITS_RELATION == "COMMITS"
AUTHORS_RELATION == "AUTHORS"

Space == " "
Emails == { <<"a@example.org">>, <<Space, "c@example.org", Space>> }
PersonNames == {"Ann", "Cem"}
Dates == {"1500000000", "1600000000"}
CommitIds == {"c0ffee"}

CommitRows ==
    [id : CommitIds,
     author_email : Emails, author_name : PersonNames, authored_date : Dates,
     committer_email : Emails, committer_name : PersonNames,
     committed_date : Dates]

\* str.strip()
RECURSIVE StripLeft(_)
StripLeft(s) ==
    IF s # <<>> /\ Head(s) = Space THEN StripLeft(Tail(s)) ELSE s

RECURSIVE StripRight(_)
StripRight(s) ==
    IF s # <<>> /\ s[Len(s)] = Space
    THEN StripRight(SubSeq(s, 1, Len(s) - 1)) ELSE s

Strip(s) == StripRight(StripLeft(s))

\* node_index(prefix, domain_id) for a domain_id that is not empty.
node_index(prefix, domain_id) == <<prefix, ":">> \o domain_id

format_relation(relation_type, start_id, end_id, timestamp) ==
    [type |-> relation_type, start_id |-> start_id, end_id |-> end_id,
     timestamp |-> timestamp]

\* The keys of the row format_contributor reads for a contributor_type,
\* lines 183-192.
ContributorKeys(contributor_type) ==
    IF contributor_type = CONTRIBUTOR_TYPE_COMMITTER
    THEN [email_key |-> "author_email", name_key |-> "author_name",
          time_key |-> "authored_date", relation_type |-> COMMITS_RELATION]
    ELSE [email_key |-> "committer_email", name_key |-> "committer_name",
          time_key |-> "committed_date", relation_type |-> AUTHORS_RELATION]

format_contributor(row, contributor_type) ==
    LET keys == ContributorKeys(contributor_type)
        email == Strip(row[keys.email_key])
        node_id == node_index("contr", email)
    IN  [node_id |-> node_id,
         node |-> [label |-> "Contributor", id |-> node_id, email |-> email,
                   name |-> row[keys.name_key]],
         relation |-> format_relation(keys.relation_type, node_id, row.id,
                                      row[keys.time_key])]

format_author(row) == format_contributor(row, CONTRIBUTOR_TYPE_AUTHOR)
format_committer(row) == format_contributor(row, CONTRIBUTOR_TYPE_COMMITTER)

\* The entries of format_commit's result that come from the contributors.
format_commit(row) ==
    [authors |-> format_author(row).relation,
     commits |-> format_committer(row).relation,
     contributors |-> {format_author(row).node, format_committer(row).node}]

ImportInit ==
    /\ input_row \in CommitRows
    /\ formatted = NoRet
    /\ OnlyImport

FormatAuthor ==
    /\ formatted = NoRet
    /\ formatted' = [fn |-> "format_author", value |-> format_author(input_row)]
    /\ UNCHANGED input_row
    /\ UNCHANGED outsideImport

FormatCommitter ==
    /\ formatted = NoRet
    /\ formatted' = [fn |-> "format_committer",
                     value |-> format_committer(input_row)]
    /\ UNCHANGED input_row
    /\ UNCHANGED outsideImport

FormatCommit ==
    /\ formatted = NoRet
    /\ formatted' = [fn |-> "format_commit", value |-> format_commit(input_row)]
    /\ UNCHANGED input_row
    /\ UNCHANGED outsideImport

ImportNext == FormatAuthor \/ FormatCommitter \/ FormatCommit

SpecImport == ImportInit /\ [][ImportNext]_vars

Formatted(fn) == formatted # NoRet /\ formatted.fn = fn

\* The Contributor node of an address and a name, and its relation to the
\* commit of the row.
ContributorNode(email, name) ==
    [label |-> "Contributor", id |-> node_index("contr", Strip(email)),
     email |-> Strip(email), name |-> name]

RelationToCommit(relation_type, email, timestamp) ==
    [type |-> relation_type, start_id |-> node_index("contr", Strip(email)),
     end_id |-> input_row.id, timestamp |-> timestamp]

AuthorsRelation ==
    RelationToCommit(AUTHORS_RELATION, input_row.author_email,
                     input_row.authored_date)

CommitsRelation ==
    RelationToCommit(COMMITS_RELATION, input_row.committer_email,
                     input_row.committed_date)

\* C28: format_author(row) returns a Contributor node built from the row's
\* author_email and author_name with an AUTHORS relation to the commit
\* timestamped with authored_date; format_committer(row) returns a node
\* built from committer_email and committer_name with a COMMITS relation
\* timestamped with committed_date; in format_commit the 'authors' entry is
\* the AUTHORS relation and the 'commits' entry is the COMMITS relation.
C28_AuthorAndCommitterKeepTheirFields ==
    /\ Formatted("format_author") =>
          /\ formatted.value.node =
                ContributorNode(input_row.author_email, input_row.author_name)
          /\ formatted.value.relation = AuthorsRelation
    /\ Formatted("format_committer") =>
          /\ formatted.value.node =
                ContributorNode(input_row.committer_email,
                                input_row.committer_name)
          /\ formatted.value.relation = CommitsRelation
    /\ Formatted("format_commit") =>
          /\ formatted.value.authors = AuthorsRelation
          /\ formatted.value.commits = CommitsRelation


\* ---------------------------------------------------------------------
\* subcommands/match_packages.py, match_play_and_github, with
\* util/package.py.
\*
\* packages is what parse_package_to_repos_file returns, details what
\* parse_package_details yields, each package with the set of links
\* Package.search_github_links finds in its details.  The file names of
\* the details directory are distinct, so no package comes twice.

PackageIds == {"com.p", "com.q"}
LinkNames == {NameA, NameB}

StatKeys ==
    {"all", "unknown", "valid", "no_github_link",
     "no_github_link_but_unique_popular", "unique_repo", "no_repo",
     "too_many_repos"}

Count(counters, keys) == [k \in StatKeys |-> counters[k] + (IF k \in keys THEN 1 ELSE 0)]

SetOf(list) == { list[i] : i \in DOMAIN list }

\* Package.has_unique_github_repo: len(set(self.github_info['repos'])) == 1
has_unique_github_repo_ByLength(repos) == Len(repos) = 1

has_unique_github_repo(repos) == Cardinality(SetOf(repos)) = 1

\* Package.match_repos_to_links: the links that name a repository of the
\* package.
match_repos_to_links(github_links, repos) == github_links \cap SetOf(repos)

\* What the hosting API answers while deduplicate runs.
PlainRepo(n, fork) ==
    [full_name |-> n, fork |-> fork, forks_count |-> 0, watchers_count |-> 0,
     subscribers_count |-> 0]

Worlds ==
    [LinkNames -> {None} \cup { PlainRepo(n, f) : n \in LinkNames, f \in BOOLEAN }]

\* deduplicate(repo_names, repo_verifier) in the world github.
deduplicate(repo_names, github) ==
    IF Len(repo_names) = 1 THEN SubscriptFullName(repo_names[1])
    ELSE IF \E i \in DOMAIN repo_names : IsMalformed(repo_names[i])
    THEN [kind |-> "raised", exc |-> "ValueError"]
    ELSE [kind |-> "returned",
          value |-> MostPopular([i \in DOMAIN repo_names |-> github[repo_names[i]]])]

Pair(package_name, repo) == [package |-> package_name, repo |-> repo]

RepoLists == StringsOver(RepoNames, MaxCandidates)

Distinct(seq) == \A i, j \in DOMAIN seq : seq[i].package_name = seq[j].package_name => i = j

MatchInit ==
    /\ known_packages \in UNION { [known -> RepoLists] : known \in SUBSET PackageIds }
    /\ package_details \in
          { d \in StringsOver([package_name : PackageIds,
                               github_links : SUBSET LinkNames],
                              Cardinality(PackageIds)) : Distinct(d) }
    /\ match_stats = [k \in StatKeys |-> 0]
    /\ matched = <<>>
    /\ match_status = "running"
    /\ OnlyMatch

\* Lines 124-178: one turn of the loop, up to the next turn, the yield
\* included.
MatchPlayAndGithub_Package ==
    /\ match_status = "running"
    /\ match_stats["all"] < Len(package_details)
    /\ LET item == package_details[match_stats["all"] + 1]
           package_name == item.package_name
       IN  IF package_name \notin DOMAIN known_packages
           THEN /\ match_stats' = Count(match_stats, {"all", "unknown"})
                /\ UNCHANGED <<matched, match_status>>
           ELSE
             LET repos == known_packages[package_name]
                 links == item.github_links
                 package_repos == match_repos_to_links(links, repos)
                 is_unique_repo == has_unique_github_repo(repos)
             IN  IF links = {} /\ ~is_unique_repo
                 THEN \E github \in Worlds :
                        LET most_popular == deduplicate(repos, github)
                        IN  IF most_popular.kind = "raised"
                            THEN /\ match_stats' =
                                       Count(match_stats, {"all", "no_github_link"})
                                 /\ match_status' = most_popular.exc
                                 /\ UNCHANGED matched
                            ELSE IF most_popular.value # None
                            THEN /\ match_stats' =
                                       Count(match_stats,
                                             {"all", "no_github_link",
                                              "no_github_link_but_unique_popular"})
                                 /\ matched' =
                                       Append(matched,
                                              Pair(package_name,
                                                   most_popular.value.str))
                                 /\ UNCHANGED match_status
                            ELSE /\ match_stats' =
                                       Count(match_stats, {"all", "no_github_link"})
                                 /\ UNCHANGED <<matched, match_status>>
                 ELSE IF package_repos = {} /\ ~is_unique_repo
                 THEN /\ match_stats' = Count(match_stats, {"all", "no_repo"})
                      /\ UNCHANGED <<matched, match_status>>
                 ELSE IF Cardinality(package_repos) > 1 /\ ~is_unique_repo
                 THEN /\ match_stats' = Count(match_stats, {"all", "too_many_repos"})
                      /\ UNCHANGED <<matched, match_status>>
                 ELSE IF is_unique_repo
                 THEN /\ match_stats' =
                            Count(match_stats, {"all", "unique_repo", "valid"})
                      /\ matched' = Append(matched, Pair(package_name, repos[1]))
                      /\ UNCHANGED match_status
                 ELSE /\ match_stats' = Count(match_stats, {"all", "valid"})
                      /\ matched' =
                            Append(matched,
                                   Pair(package_name,
                                        CHOOSE r \in package_repos : TRUE))
                      /\ UNCHANGED match_status
    /\ UNCHANGED <<known_packages, package_details>>
    /\ UNCHANGED outsideMatch

MatchPlayAndGithub_End ==
    /\ match_status = "running"
    /\ match_stats["all"] = Len(package_details)
    /\ match_status' = "done"
    /\ UNCHANGED <<known_packages, package_details, match_stats, matched>>
    /\ UNCHANGED outsideMatch

MatchNext == MatchPlayAndGithub_Package \/ MatchPlayAndGithub_End

SpecMatch == MatchInit /\ [][MatchNext]_vars

\* The known_packages the loop has gone through.
Seen == { package_details[i].package_name : i \in 1..match_stats["all"] }

PairsOf(p) == { i \in DOMAIN matched : matched[i].package = p }

\* C29: every package of the package_details directory falls into exactly one
\* outcome, so all = unknown + no_github_link + no_repo + too_many_repos +
\* valid, with unique_repo <= valid and no_github_link_but_unique_popular
\* <= no_github_link; at most one pair is yielded for a package, none for
\* an unknown one, and a package whose candidate repositories are one
\* distinct name yields that name whatever links its package_details hold.
C29_OneOutcomePerPackage ==
    /\ match_stats["all"] =
          match_stats["unknown"] + match_stats["no_github_link"]
            + match_stats["no_repo"] + match_stats["too_many_repos"]
            + match_stats["valid"]
    /\ match_stats["unique_repo"] <= match_stats["valid"]
    /\ match_stats["no_github_link_but_unique_popular"]
          <= match_stats["no_github_link"]
    /\ \A i \in DOMAIN matched : matched[i].package \in Seen
    /\ \A p \in Seen : Cardinality(PairsOf(p)) <= 1
    /\ \A p \in Seen \ DOMAIN known_packages : PairsOf(p) = {}
    /\ \A p \in Seen \cap DOMAIN known_packages :
          \A n \in RepoNames :
              SetOf(known_packages[p]) = {n} =>
                  \E i \in PairsOf(p) : matched[i].repo = n

\* A package with one repository listed twice, and with a link to another
\* repository in its package_details, has gone through the loop together with a
\* package that has no link.
C29_Witness ==
    /\ match_status = "done"
    /\ match_stats["unique_repo"] >= 1
    /\ match_stats["no_github_link"] >= 1
    /\ \E i \in DOMAIN package_details :
          /\ package_details[i].package_name \in DOMAIN known_packages
          /\ known_packages[package_details[i].package_name] = <<NameA, NameA>>
          /\ package_details[i].github_links = {NameB}
          /\ Pair(package_details[i].package_name, NameA) \in SetOf(matched)



\* ---------------------------------------------------------------------
\* subcommands/mirror_empty_repos.py, _main with _find_github_name,
\* _delete_repo and _import_from_github_to_gitlab.
\*
\* by_gitlab_name is what _by_gitlab_name returns: every key it holds has
\* at least one GitHub name, the original and the latest name of a row.
\* The GitLab server is the set of projects of namespace gitlab; a call
\* to it can fail with the error python-gitlab raises for that call.

MaxEmptyRepos == 3      \* longest input list

GitlabNames == {"o_a", "o_b", "o_c"}
GithubNames == {"o/a", "o/b"}

\* repos.get(gitlab_repo_name, set())
Mapped(gitlab_repo_name) ==
    IF gitlab_repo_name \in DOMAIN by_gitlab_name
    THEN by_gitlab_name[gitlab_repo_name] ELSE {}

\* _find_github_name(gitlab_repo_name, repos)
_find_github_name_Any(gitlab_repo_name) ==
    LET github_repos == Mapped(gitlab_repo_name)
    IN  IF Cardinality(github_repos) < 1 THEN None
        ELSE Str(CHOOSE n \in github_repos : TRUE)

_find_github_name(gitlab_repo_name) ==
    LET github_repos == Mapped(gitlab_repo_name)
    IN  IF Cardinality(github_repos) < 1 THEN None
        ELSE IF Cardinality(github_repos) > 1 THEN None
        ELSE Str(CHOOSE n \in github_repos : TRUE)

ApiCall(op, project) == [op |-> op, project |-> project]

\* _delete_repo: the calls it issues for a project the server has or has
\* not.
DeleteCalls(gitlab_repo_name) ==
    IF gitlab_repo_name \in projects
    THEN <<ApiCall("get", gitlab_repo_name), ApiCall("delete", gitlab_repo_name)>>
    ELSE <<ApiCall("get", gitlab_repo_name)>>

\* _import_from_github_to_gitlab: the call to gitlab.projects.create
CreateCall(github_repo_name, gitlab_repo_name) ==
    [op |-> "create", project |-> gitlab_repo_name,
     import_url |-> <<"https://github.com/", github_repo_name, ".git">>]

\* the project the server answers a create with
NewRepo(gitlab_repo_name) ==
    [name |-> gitlab_repo_name, path |-> gitlab_repo_name,
     id |-> Len(api_calls) + 1]

\* lines 170-175
OutputRow(github_repo_name, gitlab_repo) ==
    [github_full_name |-> github_repo_name,
     clone_project_name |-> gitlab_repo.name,
     clone_project_path |-> gitlab_repo.path,
     clone_project_id |-> gitlab_repo.id]

MirrorInit ==
    /\ by_gitlab_name \in
          UNION { [known -> SUBSET GithubNames \ {{}}] : known \in SUBSET GitlabNames }
    /\ empty_repos \in StringsOver(GitlabNames, MaxEmptyRepos)
    /\ to_import = <<>>
    /\ projects \in SUBSET GitlabNames
    /\ api_calls = <<>>
    /\ csv_rows = <<>>
    /\ mirror_pc = [phase |-> "delete", i |-> 0]
    /\ OnlyMirror

\* Lines 154-160: one turn of the first loop.
Main_Delete ==
    /\ mirror_pc.phase = "delete"
    /\ mirror_pc.i < Len(empty_repos)
    /\ LET gitlab_repo_name == empty_repos[mirror_pc.i + 1]
           github_repo_name == _find_github_name(gitlab_repo_name)
       IN  IF github_repo_name = None
           THEN /\ mirror_pc' = [mirror_pc EXCEPT !.i = @ + 1]
                /\ UNCHANGED <<to_import, projects, api_calls>>
           ELSE /\ to_import' =
                      Append(to_import, <<github_repo_name.str, gitlab_repo_name>>)
                /\ api_calls' = api_calls \o DeleteCalls(gitlab_repo_name)
                /\ IF gitlab_repo_name \in projects
                   THEN \/ /\ projects' = projects \ {gitlab_repo_name}
                           /\ mirror_pc' = [mirror_pc EXCEPT !.i = @ + 1]
                        \/ /\ mirror_pc' = [mirror_pc EXCEPT !.phase = "GitlabDeleteError"]
                           /\ UNCHANGED projects
                   ELSE /\ mirror_pc' = [mirror_pc EXCEPT !.i = @ + 1]
                        /\ UNCHANGED projects
    /\ UNCHANGED <<by_gitlab_name, empty_repos, csv_rows>>
    /\ UNCHANGED outsideMirror

\* Lines 162-164: the wait between the loops.
Main_Wait ==
    /\ mirror_pc.phase = "delete"
    /\ mirror_pc.i = Len(empty_repos)
    /\ mirror_pc' = [phase |-> "import", i |-> 0]
    /\ UNCHANGED <<by_gitlab_name, empty_repos, to_import, projects, api_calls, csv_rows>>
    /\ UNCHANGED outsideMirror

\* Lines 166-175: one turn of the second loop.
Main_Import ==
    /\ mirror_pc.phase = "import"
    /\ mirror_pc.i < Len(to_import)
    /\ LET github_repo_name == to_import[mirror_pc.i + 1][1]
           gitlab_repo_name == to_import[mirror_pc.i + 1][2]
       IN  /\ api_calls' = Append(api_calls, CreateCall(github_repo_name, gitlab_repo_name))
           /\ \/ /\ gitlab_repo_name \notin projects
                 /\ projects' = projects \cup {gitlab_repo_name}
                 /\ csv_rows' =
                       Append(csv_rows,
                              OutputRow(github_repo_name, NewRepo(gitlab_repo_name)))
                 /\ mirror_pc' = [mirror_pc EXCEPT !.i = @ + 1]
              \/ /\ mirror_pc' = [mirror_pc EXCEPT !.phase = "GitlabCreateError"]
                 /\ UNCHANGED <<projects, csv_rows>>
    /\ UNCHANGED <<by_gitlab_name, empty_repos, to_import>>
    /\ UNCHANGED outsideMirror

Main_End ==
    /\ mirror_pc.phase = "import"
    /\ mirror_pc.i = Len(to_import)
    /\ mirror_pc' = [mirror_pc EXCEPT !.phase = "done"]
    /\ UNCHANGED <<by_gitlab_name, empty_repos, to_import, projects, api_calls, csv_rows>>
    /\ UNCHANGED outsideMirror

MirrorNext == Main_Delete \/ Main_Wait \/ Main_Import \/ Main_End

SpecMirror == MirrorInit /\ [][MirrorNext]_vars

Issued(ops) == { i \in DOMAIN api_calls : api_calls[i].op \in ops }

Imports == SelectSeq(api_calls, LAMBDA c : c.op = "create")

OneName(gitlab_repo_name) == Cardinality(Mapped(gitlab_repo_name)) = 1

\* C30: _main works in two phases: every call that looks up or deletes a
\* project is issued before the first import; only a project whose GitLab
\* name has exactly one GitHub name is looked up, deleted or imported; a
\* run that comes to its end has imported, in the order of the input
\* list, every entry with exactly one GitHub name, whether its project
\* existed or not; and the output holds one row per import that
\* returned, in the order of the imports.
C30_DeleteAllThenImport ==
    /\ \A i \in Issued({"get", "delete"}) : \A j \in Issued({"create"}) : i < j
    /\ \A i \in DOMAIN api_calls : OneName(api_calls[i].project)
    /\ mirror_pc.phase = "done" =>
          /\ [i \in DOMAIN Imports |-> Imports[i].project]
                = SelectSeq(empty_repos, OneName)
          /\ Len(csv_rows) = Len(Imports)
    /\ Len(csv_rows) =
          Len(Imports) - (IF mirror_pc.phase = "GitlabCreateError" THEN 1 ELSE 0)
    /\ \A k \in DOMAIN csv_rows :
          /\ csv_rows[k].clone_project_name = Imports[k].project
          /\ Mapped(Imports[k].project) = {csv_rows[k].github_full_name}

\* A run has come to its end after it deleted and imported one project,
\* imported another one that the server did not have, and left alone an
\* entry with two GitHub names.
C30_Witness ==
    /\ mirror_pc.phase = "done"
    /\ \E n \in GitlabNames :
          /\ Cardinality(Mapped(n)) = 2
          /\ \E i \in DOMAIN empty_repos : empty_repos[i] = n
    /\ \E i \in Issued({"delete"}) : \E j \in Issued({"create"}) :
          api_calls[i].project = api_calls[j].project
    /\ \E j \in Issued({"create"}) :
          \A i \in Issued({"delete"}) : api_calls[i].project # api_calls[j].project
    /\ Len(csv_rows) = 2

====
